---------------------------- MODULE Spec2Model ----------------------------
(***************************************************************************)
(* Float Chat prototype: the keyword query classifier, the parameter       *)
(* extraction, the templated response generator, the region lookup, the    *)
(* NetCDF filename synthesizer and the chat-session store with its HTTP    *)
(* handlers, modelled from src/lib/data-processing/netcdf-processor.ts,    *)
(* src/app/api/chat/route.ts and the SQL schema in src/unnamed/part_003.    *)
(*                                                                         *)
(* Strings that the code inspects character by character (queries and      *)
(* filenames) are sequences of one-character strings, so that substring    *)
(* search, case folding and the regular expressions are computed on the    *)
(* characters themselves.                                                  *)
(***************************************************************************)
EXTENDS Integers, Sequences, FiniteSets, TLC

(***************************************************************************)
(* Characters and the string primitives of the JavaScript runtime          *)
(***************************************************************************)
DigitChars == <<"0", "1", "2", "3", "4", "5", "6", "7", "8", "9">>

Digits == {DigitChars[i] : i \in 1..10}

Whitespace == {" ", "\t"}

UpperChars ==
  <<"A", "B", "C", "D", "E", "F", "G", "H", "I", "J", "K", "L", "M",
    "N", "O", "P", "Q", "R", "S", "T", "U", "V", "W", "X", "Y", "Z">>

LowerChars ==
  <<"a", "b", "c", "d", "e", "f", "g", "h", "i", "j", "k", "l", "m",
    "n", "o", "p", "q", "r", "s", "t", "u", "v", "w", "x", "y", "z">>

LowerChar(c) ==
  IF \E i \in 1..26 : UpperChars[i] = c
  THEN LowerChars[CHOOSE i \in 1..26 : UpperChars[i] = c]
  ELSE c

\* String.prototype.toLowerCase
toLowerCase(s) == [i \in 1..Len(s) |-> LowerChar(s[i])]

\* String.prototype.includes: k occurs in s as a contiguous substring
includes(s, k) ==
  \E i \in 1..(Len(s) - Len(k) + 1) : SubSeq(s, i, i + Len(k) - 1) = k

\* the character of s at index i, "" past either end
At(s, i) == IF i \in 1..Len(s) THEN s[i] ELSE ""

\* whether the literal k stands in s at index i
StartsAt(s, i, k) == i + Len(k) - 1 <= Len(s) /\ SubSeq(s, i, i + Len(k) - 1) = k

RECURSIVE SkipWhile(_, _, _)
\* greedy X*: the first index >= i of s whose character is not in class
SkipWhile(s, i, class) ==
  IF i <= Len(s) /\ s[i] \in class THEN SkipWhile(s, i + 1, class) ELSE i

DigitVal(c) == (CHOOSE n \in 1..10 : DigitChars[n] = c) - 1

RECURSIVE parseInt(_)
\* Number.parseInt on a string of decimal digits
parseInt(ds) ==
  IF Len(ds) = 0 THEN 0
  ELSE 10 * parseInt(SubSeq(ds, 1, Len(ds) - 1)) + DigitVal(ds[Len(ds)])

\* a regular expression's match result: <<>> is null, <<g>> a match with
\* first capture group g
NoMatch == <<>>

Capture(g) == <<g>>

(***************************************************************************)
(* Keywords of the classifier (analyzeQuery)                               *)
(***************************************************************************)
kw_temperature == <<"t", "e", "m", "p", "e", "r", "a", "t", "u", "r", "e">>
kw_temp == <<"t", "e", "m", "p">>
kw_salinity == <<"s", "a", "l", "i", "n", "i", "t", "y">>
kw_salt == <<"s", "a", "l", "t">>
kw_oxygen == <<"o", "x", "y", "g", "e", "n">>
kw_nitrate == <<"n", "i", "t", "r", "a", "t", "e">>
kw_ph == <<"p", "h">>
kw_chlorophyll == <<"c", "h", "l", "o", "r", "o", "p", "h", "y", "l", "l">>
kw_float == <<"f", "l", "o", "a", "t">>
kw_location == <<"l", "o", "c", "a", "t", "i", "o", "n">>
kw_position == <<"p", "o", "s", "i", "t", "i", "o", "n">>
kw_compare == <<"c", "o", "m", "p", "a", "r", "e">>
kw_difference == <<"d", "i", "f", "f", "e", "r", "e", "n", "c", "e">>
kw_vs == <<"v", "s">>

(***************************************************************************)
(* extractParameters: the three regular expressions                        *)
(***************************************************************************)
RECURSIVE MatchFloatFrom(_, _)
\* query.match(/float\s+(\d+)/i), tried at start index i and onwards
MatchFloatFrom(s, i) ==
  IF i + 4 > Len(s) THEN NoMatch
  ELSE LET a == i + 5
           b == SkipWhile(s, a, Whitespace)
           c == SkipWhile(s, b, Digits)
       IN IF toLowerCase(SubSeq(s, i, i + 4)) = kw_float /\ b > a /\ c > b
          THEN Capture(SubSeq(s, b, c - 1))
          ELSE MatchFloatFrom(s, i + 1)

\* a mutant: any digit run is taken for a float identifier
MatchSevenDigitsFrom_AnyDigitRun(s, i) ==
  LET b == SkipWhile(s, 1, {At(s, k) : k \in 1..Len(s)} \ Digits)
      c == SkipWhile(s, b, Digits)
  IN IF c > b THEN Capture(SubSeq(s, b, c - 1)) ELSE NoMatch

RECURSIVE MatchSevenDigitsFrom(_, _)
\* query.match(/(\d{7})/)
MatchSevenDigitsFrom(s, i) ==
  IF i + 6 > Len(s) THEN NoMatch
  ELSE IF \A k \in i..(i + 6) : s[k] \in Digits
       THEN Capture(SubSeq(s, i, i + 6))
       ELSE MatchSevenDigitsFrom(s, i + 1)

\* a mutant: the first digit run is taken for a depth, unit or not
MatchDepthFrom_NoUnit(s, i) ==
  LET b == SkipWhile(s, 1, {At(s, k) : k \in 1..Len(s)} \ Digits)
      c == SkipWhile(s, b, Digits)
  IN IF c > b THEN Capture(SubSeq(s, b, c - 1)) ELSE NoMatch

RECURSIVE MatchDepthFrom(_, _)
\* query.match(/(\d+)\s*(?:m|meter|metre)/i)
MatchDepthFrom(s, i) ==
  IF i > Len(s) THEN NoMatch
  ELSE LET b == SkipWhile(s, i, Digits)
           c == SkipWhile(s, b, Whitespace)
           l == toLowerCase(s)
       IN IF /\ b > i
             /\ \/ StartsAt(l, c, <<"m">>)
                \/ StartsAt(l, c, <<"m", "e", "t", "e", "r">>)
                \/ StartsAt(l, c, <<"m", "e", "t", "r", "e">>)
          THEN Capture(SubSeq(s, i, b - 1))
          ELSE MatchDepthFrom(s, i + 1)

DateSeparators == {"-", "/"}

RECURSIVE MatchDateFrom(_, _)
\* query.match(/(\d{4}[-/]\d{1,2}[-/]\d{1,2})/)
MatchDateFrom(s, i) ==
  IF i > Len(s) THEN NoMatch
  ELSE LET p == i + 5
           two == At(s, p) \in Digits /\ At(s, p + 1) \in Digits
                    /\ At(s, p + 2) \in DateSeparators
           one == At(s, p) \in Digits /\ At(s, p + 1) \in DateSeparators
           q == IF two THEN p + 3 ELSE p + 2
           e == IF At(s, q + 1) \in Digits THEN q + 1 ELSE q
       IN IF /\ \A k \in i..(i + 3) : At(s, k) \in Digits
             /\ At(s, i + 4) \in DateSeparators
             /\ two \/ one
             /\ At(s, q) \in Digits
          THEN Capture(SubSeq(s, i, e))
          ELSE MatchDateFrom(s, i + 1)

\* an optional parameter of the params object: <<>> when the key is unset
Unset == <<>>

\* ChatProcessor.extractParameters
extractParameters(query) ==
  LET floatMatch == IF MatchFloatFrom(query, 1) # NoMatch
                    THEN MatchFloatFrom(query, 1)
                    ELSE MatchSevenDigitsFrom(query, 1)
      depthMatch == MatchDepthFrom(query, 1)
      dateMatch == MatchDateFrom(query, 1)
  IN [floatId |-> IF floatMatch # NoMatch THEN <<floatMatch[1]>> ELSE Unset,
      depth |-> IF depthMatch # NoMatch THEN <<parseInt(depthMatch[1])>> ELSE Unset,
      date |-> IF dateMatch # NoMatch THEN <<dateMatch[1]>> ELSE Unset]

(***************************************************************************)
(* analyzeQuery: ordered keyword rules, first match wins                   *)
(***************************************************************************)
Analysis(type, query, visualizations, dataNeeded) ==
  [type |-> type,
   parameters |-> extractParameters(query),
   visualizations |-> visualizations,
   dataNeeded |-> dataNeeded]

\* the conditions of the five keyword rules, on the lower-cased query
TemperatureRule_UnlessComparison(lowerQuery) ==
  /\ includes(lowerQuery, kw_temperature) \/ includes(lowerQuery, kw_temp)
  /\ ~ includes(lowerQuery, kw_compare)

TemperatureRule(lowerQuery) ==
  includes(lowerQuery, kw_temperature) \/ includes(lowerQuery, kw_temp)

SalinityRule(lowerQuery) ==
  includes(lowerQuery, kw_salinity) \/ includes(lowerQuery, kw_salt)

BGCRule(lowerQuery) ==
  \/ includes(lowerQuery, kw_oxygen)
  \/ includes(lowerQuery, kw_nitrate)
  \/ includes(lowerQuery, kw_ph)
  \/ includes(lowerQuery, kw_chlorophyll)

FloatLocationRule_AnyTerm(lowerQuery) ==
  \/ includes(lowerQuery, kw_float)
  \/ includes(lowerQuery, kw_location)
  \/ includes(lowerQuery, kw_position)

FloatLocationRule(lowerQuery) ==
  /\ includes(lowerQuery, kw_float)
  /\ includes(lowerQuery, kw_location) \/ includes(lowerQuery, kw_position)

ComparisonRule(lowerQuery) ==
  \/ includes(lowerQuery, kw_compare)
  \/ includes(lowerQuery, kw_difference)
  \/ includes(lowerQuery, kw_vs)

\* ChatProcessor.analyzeQuery
analyzeQuery(query) ==
  LET lowerQuery == toLowerCase(query)
  IN IF TemperatureRule(lowerQuery)
     THEN Analysis("temperature_query", query,
                   <<"temperature_profile", "depth_chart">>, {"depth_measurements"})
     ELSE IF SalinityRule(lowerQuery)
     THEN Analysis("salinity_query", query,
                   <<"salinity_profile", "depth_chart">>, {"depth_measurements"})
     ELSE IF BGCRule(lowerQuery)
     THEN Analysis("bgc_query", query,
                   <<"bgc_profile", "oxygen_chart">>, {"bgc_measurements"})
     ELSE IF FloatLocationRule(lowerQuery)
     THEN Analysis("float_location_query", query,
                   <<"map", "trajectory">>, {"argo_floats", "ocean_profiles"})
     ELSE IF ComparisonRule(lowerQuery)
     THEN Analysis("comparison_query", query,
                   <<"comparison_chart", "overlay_plot">>,
                   {"depth_measurements", "bgc_measurements"})
     ELSE Analysis("general_query", query,
                   <<"summary_chart">>, {"ocean_profiles", "depth_measurements"})

(***************************************************************************)
(* getOceanRegion, once in each class.  Coordinates are integers in        *)
(* hundredths of a degree (15.52 degrees is 1552).                         *)
(***************************************************************************)
Deg(n) == n * 100

\* a mutant: the Indian Ocean box starts at the equator
getOceanRegion_NorthernBox(lat, lon) ==
  IF lat >= Deg(0) /\ lat <= Deg(30) /\ lon >= Deg(40) /\ lon <= Deg(100)
  THEN "Arabian Sea"
  ELSE IF lat >= Deg(0) /\ lat <= Deg(30) /\ lon >= Deg(20) /\ lon <= Deg(120)
  THEN "Indian Ocean"
  ELSE IF lat >= Deg(-10) /\ lat <= Deg(30) /\ lon >= Deg(90) /\ lon <= Deg(120)
  THEN "Bay of Bengal"
  ELSE "Indian Ocean region"

\* ChatProcessor.getOceanRegion
getOceanRegion(lat, lon) ==
  IF lat >= Deg(0) /\ lat <= Deg(30) /\ lon >= Deg(40) /\ lon <= Deg(100)
  THEN "Arabian Sea"
  ELSE IF lat >= Deg(-30) /\ lat <= Deg(30) /\ lon >= Deg(20) /\ lon <= Deg(120)
  THEN "Indian Ocean"
  ELSE IF lat >= Deg(-10) /\ lat <= Deg(30) /\ lon >= Deg(90) /\ lon <= Deg(120)
  THEN "Bay of Bengal"
  ELSE "Indian Ocean region"

\* VectorEmbeddingsGenerator.getOceanRegion
embeddingsGetOceanRegion(lat, lon) ==
  IF lat >= Deg(0) /\ lat <= Deg(30) /\ lon >= Deg(40) /\ lon <= Deg(100)
  THEN "Arabian Sea"
  ELSE IF lat >= Deg(-30) /\ lat <= Deg(30) /\ lon >= Deg(20) /\ lon <= Deg(120)
  THEN "Indian Ocean"
  ELSE IF lat >= Deg(-10) /\ lat <= Deg(30) /\ lon >= Deg(90) /\ lon <= Deg(120)
  THEN "Bay of Bengal"
  ELSE "Indian Ocean region"

(***************************************************************************)
(* Retrieved rows.  A row of the data list handed to the response          *)
(* generator carries the columns the templates read; a column the row's    *)
(* table does not have is Unset (undefined in the code).  Temperatures are *)
(* integers in thousandths of a degree (the column is DECIMAL(6, 3)),      *)
(* dates are integer instants.  The                                        *)
(* message texts are the code's, with the bullet, degree and micro signs   *)
(* written in ASCII as an asterisk, deg and u.                             *)
(***************************************************************************)
FloatRow(f) ==
  [table |-> "argo_floats", float_id |-> <<f.float_id>>, argo_floats |-> Unset,
   depth_measurements |-> Unset, latitude |-> Unset, longitude |-> Unset,
   deployment_latitude |-> <<f.deployment_latitude>>,
   deployment_longitude |-> <<f.deployment_longitude>>,
   status |-> <<f.status>>, last_transmission |-> <<f.last_transmission>>,
   profile_date |-> Unset, depth_meters |-> Unset]

\* an ocean_profiles row with its embedded argo_floats(*) and
\* depth_measurements(*)
ProfileRow(p, measurements) ==
  [table |-> "ocean_profiles", float_id |-> <<p.float_id>>,
   argo_floats |-> <<p.float_id>>, depth_measurements |-> <<measurements>>,
   latitude |-> <<p.latitude>>, longitude |-> <<p.longitude>>,
   deployment_latitude |-> Unset, deployment_longitude |-> Unset,
   status |-> Unset, last_transmission |-> Unset,
   profile_date |-> <<p.profile_date>>, depth_meters |-> Unset]

\* a depth_measurements row; its own columns are not read by any template
MeasurementRow(m) ==
  [table |-> "depth_measurements", float_id |-> Unset, argo_floats |-> Unset,
   depth_measurements |-> Unset, latitude |-> Unset, longitude |-> Unset,
   deployment_latitude |-> Unset, deployment_longitude |-> Unset,
   status |-> Unset, last_transmission |-> Unset, profile_date |-> Unset,
   depth_meters |-> <<m.depth_meters>>]

\* Array.prototype.find: <<>> when no element satisfies Test, else <<element>>
FindFrom(rows, i, Test(_)) ==
  LET hits == {k \in i..Len(rows) : Test(rows[k])}
  IN IF hits = {} THEN Unset
     ELSE <<rows[CHOOSE k \in hits : \A h \in hits : k <= h]>>

\* Math.max over the depths of a non-empty list
MaxDepthOf(measurements) ==
  CHOOSE d \in {measurements[i].depth_meters : i \in 1..Len(measurements)} :
    \A i \in 1..Len(measurements) : measurements[i].depth_meters <= d

\* n?.toFixed(1) of a reading in thousandths, rounded to the nearest
\* tenth; "undefined" when there is none
Fixed1(opt) ==
  IF opt = Unset THEN <<"undefined">>
  ELSE LET tenths == (opt[1] + 50) \div 100
       IN <<ToString(tenths \div 10), ".", ToString(tenths % 10)>>

\* n?.toFixed(2) of a coordinate in hundredths
Fixed2(opt) ==
  IF opt = Unset THEN <<"undefined">>
  ELSE <<ToString(opt[1] \div 100), ".", ToString((opt[1] % 100) \div 10),
         ToString(opt[1] % 10)>>

\* a || b on optional non-zero numbers
OrElse(a, b) == IF a # Unset /\ a[1] # 0 THEN a ELSE b

\* getOceanRegion on possibly undefined coordinates: every comparison with
\* undefined is false
RegionOf(lat, lon) ==
  IF lat = Unset \/ lon = Unset THEN "Indian Ocean region"
  ELSE getOceanRegion(lat[1], lon[1])

TemperatureNoData ==
  "I don't have temperature data available for your query. Please try asking about a specific ARGO float ID or check if the data has been processed."

TemperatureFound ==
  "I found temperature data from recent ARGO profiles. The data shows typical tropical Indian Ocean characteristics with warm surface waters (28-29 degC) decreasing to about 4 degC at 2000m depth. Would you like me to show you a specific float's temperature profile?"

SalinityNoData ==
  "I don't have salinity data available for your query. Please specify an ARGO float ID or check if the data has been processed."

SalinityFound ==
  "Salinity data from ARGO floats shows typical Arabian Sea characteristics with surface values around 34.8-35.2 PSU. The salinity profile indicates the influence of high evaporation rates in this region, with a subsurface salinity maximum around 100-200m depth."

BGCNoData ==
  "I don't have biogeochemical data available for your query. BGC data is available from select ARGO floats with biogeochemical sensors."

BGCFound ==
  "Biogeochemical data shows interesting patterns:\n\n* Oxygen: High surface concentrations (220+ umol/kg) decreasing to minimum values around 500m depth\n* Nitrate: Low surface values increasing with depth, typical of nutrient cycling\n* pH: Surface values around 8.1 decreasing slightly with depth\n* Chlorophyll: Maximum concentrations in the upper 100m where photosynthesis occurs\n\nThis data reveals the complex biogeochemical processes in the Indian Ocean."

LocationNoData ==
  "I don't have location data for the requested float. Please check the float ID or try a different query."

LocationFound ==
  "I found location data for ARGO floats in the Indian Ocean region. These autonomous instruments drift with ocean currents while collecting temperature, salinity, and biogeochemical data."

ComparisonText ==
  "Comparison analysis shows variations in oceanographic parameters across different locations and time periods. The data reveals spatial and temporal patterns that are important for understanding ocean dynamics and climate variability in the Indian Ocean region."

GeneralNoData ==
  "I don't have specific data to answer your query. Try asking about:\n\n* Temperature profiles for a specific float\n* Salinity data in the Arabian Sea\n* Oxygen levels at different depths\n* Float locations and trajectories\n\nYou can reference specific ARGO float IDs (like 5906468) for detailed information."

(***************************************************************************)
(* The response generator.  A response is the sequence of the text pieces  *)
(* of the template, in order (a fixed message is one piece).               *)
(***************************************************************************)
\* ChatProcessor.generateTemperatureResponse
generateTemperatureResponse(query, analysis, data) ==
  IF Len(data) = 0 THEN <<TemperatureNoData>>
  ELSE
    LET floatId == analysis.parameters.floatId
        Matches(d) == d.float_id = floatId \/ d.argo_floats = floatId
        found == IF floatId # Unset THEN FindFrom(data, 1, Matches) ELSE Unset
    IN IF found # Unset /\ found[1].depth_measurements # Unset
       THEN
         LET profileData == found[1]
             measurements == profileData.depth_measurements[1]
             Shallow(m) == m.depth_meters <= 10
             surface == FindFrom(measurements, 1, Shallow)
             surfaceTemp == IF surface = Unset THEN Unset
                            ELSE <<surface[1].temperature_celsius>>
             deepTemp == IF Len(measurements) = 0 THEN Unset
                         ELSE <<measurements[Len(measurements)].temperature_celsius>>
             maxDepth == IF Len(measurements) = 0 THEN "-Infinity"
                         ELSE ToString(MaxDepthOf(measurements))
         IN <<"Temperature profile for ARGO float ">> \o floatId[1]
              \o <<":\n\n* Surface temperature: ">> \o Fixed1(surfaceTemp)
              \o <<" degC\n* Deep temperature: ">> \o Fixed1(deepTemp)
              \o <<" degC at ", maxDepth, "m\n* Profile shows typical ",
                   RegionOf(profileData.latitude, profileData.longitude),
                   " thermal structure\n* Data collected on ",
                   ToString(profileData.profile_date[1]),
                   "\n\nThe temperature decreases with depth, showing the typical thermocline structure of tropical waters.">>
       ELSE <<TemperatureFound>>

\* ChatProcessor.generateSalinityResponse
generateSalinityResponse(query, analysis, data) ==
  IF Len(data) = 0 THEN <<SalinityNoData>> ELSE <<SalinityFound>>

\* ChatProcessor.generateBGCResponse
generateBGCResponse(query, analysis, data) ==
  IF Len(data) = 0 THEN <<BGCNoData>> ELSE <<BGCFound>>

\* ChatProcessor.generateLocationResponse
generateLocationResponse(query, analysis, data) ==
  IF Len(data) = 0 THEN <<LocationNoData>>
  ELSE
    LET HasFloat(d) == d.float_id # Unset \/ d.argo_floats # Unset
        found == FindFrom(data, 1, HasFloat)
    IN IF found # Unset
       THEN
         LET floatData == found[1]
             lat == OrElse(floatData.latitude, floatData.deployment_latitude)
             lon == OrElse(floatData.longitude, floatData.deployment_longitude)
             region == RegionOf(lat, lon)
             status == IF floatData.status # Unset THEN floatData.status[1]
                       ELSE "Active"
             when == IF floatData.last_transmission # Unset
                     THEN floatData.last_transmission
                     ELSE floatData.profile_date
         IN <<"ARGO float location information:\n\n* Current/Last position: ">>
              \o Fixed2(lat) \o <<" degN, ">> \o Fixed2(lon)
              \o <<" degE\n* Region: ", region, "\n* Status: ", status,
                   "\n* Last transmission: ", ToString(when[1]),
                   "\n\nThis float is operating in the ", region,
                   ", providing valuable oceanographic data for climate research.">>
       ELSE <<LocationFound>>

\* ChatProcessor.generateComparisonResponse
generateComparisonResponse(query, analysis, data) == <<ComparisonText>>

\* ChatProcessor.generateGeneralResponse
generateGeneralResponse(query, analysis, data) ==
  IF Len(data) = 0 THEN <<GeneralNoData>>
  ELSE <<"I found ", ToString(Len(data)),
         " relevant records in the ARGO database. The data includes temperature, salinity, and biogeochemical measurements from autonomous floats in the Indian Ocean region. This information is valuable for understanding ocean conditions and climate patterns. Would you like me to provide more specific details about any particular aspect?">>

\* ChatProcessor.generateResponse
generateResponse(query, analysis, data) ==
  CASE analysis.type = "temperature_query" ->
         generateTemperatureResponse(query, analysis, data)
    [] analysis.type = "salinity_query" ->
         generateSalinityResponse(query, analysis, data)
    [] analysis.type = "bgc_query" ->
         generateBGCResponse(query, analysis, data)
    [] analysis.type = "float_location_query" ->
         generateLocationResponse(query, analysis, data)
    [] analysis.type = "comparison_query" ->
         generateComparisonResponse(query, analysis, data)
    [] OTHER -> generateGeneralResponse(query, analysis, data)

(***************************************************************************)
(* processNetCDFFile: the filename pattern and the synthesized profile     *)
(***************************************************************************)
RECURSIVE MatchFilenameFrom_GroupsSwapped(_, _)
\* a mutant: the two capture groups change places
MatchFilenameFrom_GroupsSwapped(s, i) ==
  IF i > Len(s) THEN NoMatch
  ELSE LET b == SkipWhile(s, i + 1, Digits)
           c == SkipWhile(s, b + 1, Digits)
       IN IF /\ s[i] = "R"
             /\ b > i + 1
             /\ At(s, b) = "_"
             /\ c > b + 1
             /\ StartsAt(s, c, <<".", "n", "c">>)
          THEN <<SubSeq(s, b + 1, c - 1), SubSeq(s, i + 1, b - 1)>>
          ELSE MatchFilenameFrom_GroupsSwapped(s, i + 1)

RECURSIVE MatchFilenameFrom(_, _)
\* filename.match(/R(\d+)_(\d+)\.nc/): <<>> or the two captured digit groups
MatchFilenameFrom(s, i) ==
  IF i > Len(s) THEN NoMatch
  ELSE LET b == SkipWhile(s, i + 1, Digits)
           c == SkipWhile(s, b + 1, Digits)
       IN IF /\ s[i] = "R"
             /\ b > i + 1
             /\ At(s, b) = "_"
             /\ c > b + 1
             /\ StartsAt(s, c, <<".", "n", "c">>)
          THEN <<SubSeq(s, i + 1, b - 1), SubSeq(s, b + 1, c - 1)>>
          ELSE MatchFilenameFrom(s, i + 1)

\* NetCDFProcessor.generateDepthMeasurements: the 21 depth levels
MeasurementDepths ==
  <<5, 10, 20, 30, 50, 75, 100, 125, 150, 200, 250, 300, 400, 500, 600, 750,
    1000, 1250, 1500, 1750, 2000>>

\* NetCDFProcessor.generateBGCMeasurements: the 17 depth levels
BGCDepths ==
  <<5, 10, 20, 30, 50, 75, 100, 125, 150, 200, 250, 300, 400, 500, 600, 750,
    1000>>

\* pressure in hundredths of a decibar: depth * 1.02; the readings drawn
\* from Math.random() are not carried
generateDepthMeasurements ==
  [i \in 1..Len(MeasurementDepths) |->
     [depth |-> MeasurementDepths[i], pressure |-> MeasurementDepths[i] * 102]]

\* BGC readings taken at every level of the depth measurements
generateBGCMeasurements_AllDepths ==
  [i \in 1..Len(MeasurementDepths) |-> [depth |-> MeasurementDepths[i]]]

generateBGCMeasurements ==
  [i \in 1..Len(BGCDepths) |-> [depth |-> BGCDepths[i]]]

\* NetCDFProcessor.processNetCDFFile; now, lat and lon are the values of
\* new Date() and of the two Math.random() draws.  The result either holds
\* the thrown error or the returned profile.
processNetCDFFile(filename, now, lat, lon) ==
  LET floatMatch == MatchFilenameFrom(filename, 1)
  IN IF floatMatch = NoMatch
     THEN [threw |-> TRUE,
           error |-> <<"Invalid NetCDF filename format: ">> \o filename,
           profile |-> Unset]
     ELSE [threw |-> FALSE,
           error |-> <<>>,
           profile |-> <<[floatId |-> floatMatch[1],
                          platformNumber |-> floatMatch[1],
                          profileDate |-> now,
                          latitude |-> lat,
                          longitude |-> lon,
                          cycleNumber |-> parseInt(floatMatch[2]),
                          measurements |-> generateDepthMeasurements,
                          bgcData |-> generateBGCMeasurements]>>]

(***************************************************************************)
(* Bounded inputs                                                          *)
(***************************************************************************)
RECURSIVE Flatten(_)
\* the concatenation of a sequence of strings
Flatten(parts) ==
  IF Len(parts) = 0 THEN <<>> ELSE Head(parts) \o Flatten(Tail(parts))

\* every string made of at most n fragments
Concatenations(fragments, n) ==
  {Flatten(parts) : parts \in UNION {[1..k -> fragments] : k \in 0..n}}

\* no run of ten or more digits: the numbers parsed from the string stay
\* below 2^31, where the model's integers and the code's doubles agree
FitsInt(s) ==
  ~ \E i \in 1..Len(s) : \A k \in i..(i + 9) : At(s, k) \in Digits

MaxWords == 3

MaxTokens == 4

MaxResponseWords == 2

MaxNameParts == 5

ClassifierWords ==
  {<<"T", "e", "m", "p", "e", "r", "a", "t", "u", "r", "e">>,
   <<"T", "E", "M", "P">>, kw_salinity, <<"S", "a", "l", "t">>,
   kw_oxygen, kw_nitrate, <<"p", "H">>, kw_chlorophyll, kw_float, kw_location,
   <<"P", "o", "s", "i", "t", "i", "o", "n">>, kw_compare, kw_difference,
   kw_vs}

ParameterTokens ==
  {kw_float, <<"F", "l", "o", "a", "t">>, <<" ">>,
   <<"5", "9", "0", "6", "4", "6", "8">>, <<"1", "2">>, <<"m">>,
   <<"M", "e", "t", "e", "r">>, <<"s">>}

\* "at 500m depth", "float 5906468", "5906468", "depth 007 metres",
\* "compare temperature between floats", "2024-12-20 salinity vs oxygen",
\* "12 34m", "5906468 float 12"
ExampleQueries ==
  {<<"1", "2", " ", "3", "4", "m">>,
   <<"5", "9", "0", "6", "4", "6", "8", " ", "f", "l", "o", "a", "t", " ",
     "1", "2">>,
   <<"a", "t", " ", "5", "0", "0", "m", " ", "d", "e", "p", "t", "h">>,
   <<"f", "l", "o", "a", "t", " ", "5", "9", "0", "6", "4", "6", "8">>,
   <<"5", "9", "0", "6", "4", "6", "8">>,
   <<"d", "e", "p", "t", "h", " ", "0", "0", "7", " ", "m", "e", "t", "r",
     "e", "s">>,
   <<"c", "o", "m", "p", "a", "r", "e", " ", "t", "e", "m", "p", "e", "r",
     "a", "t", "u", "r", "e", " ", "b", "e", "t", "w", "e", "e", "n", " ",
     "f", "l", "o", "a", "t", "s">>,
   <<"2", "0", "2", "4", "-", "1", "2", "-", "2", "0", " ", "s", "a", "l",
     "i", "n", "i", "t", "y", " ", "v", "s", " ", "o", "x", "y", "g", "e",
     "n">>}

\* inputs of the classifier, of the parameter extraction and of the
\* response generator
Queries == Concatenations(ClassifierWords, MaxWords) \cup ExampleQueries

ParameterQueries ==
  {q \in Concatenations(ParameterTokens, MaxTokens) : FitsInt(q)}
    \cup ExampleQueries

ResponseQueries ==
  Concatenations(ClassifierWords, MaxResponseWords)
    \cup {q \in Concatenations(ParameterTokens, MaxResponseWords) : FitsInt(q)}
    \cup ExampleQueries

FilenameParts ==
  {<<"R">>, <<"_">>, <<".", "n", "c">>, <<".", "t", "x", "t">>,
   <<"5", "9", "0", "6", "4", "7", "1">>, <<"0", "9", "8">>, <<"x">>}

Filenames ==
  {f \in Concatenations(FilenameParts, MaxNameParts) : FitsInt(f)}
    \cup {<<"R", "5", "9", "0", "6", "4", "7", "1", "_", "0", "9", "8", ".",
            "n", "c">>,
          <<"x", "R", "5", "9", "0", "6", "4", "7", "1", "_", "0", "9", "8",
            ".", "n", "c", "x">>,
          <<"R", "0", "9", "8", "_", "5", "9", "0", "6", "4", "7", "1", "x",
            "n", "c">>}

\* sample retrieved data for the response generator: nothing, a float row,
\* a profile row with two embedded measurements
SampleFloat ==
  [float_id |-> <<"5", "9", "0", "6", "4", "6", "8">>,
   deployment_latitude |-> 1550, deployment_longitude |-> 6820,
   status |-> "active", last_transmission |-> 3]

SampleProfile ==
  [float_id |-> <<"5", "9", "0", "6", "4", "6", "8">>, profile_date |-> 3,
   latitude |-> 1552, longitude |-> 6818]

SampleMeasurements ==
  <<[depth_meters |-> 5, temperature_celsius |-> 28400],
    [depth_meters |-> 2000, temperature_celsius |-> 2200]>>

SampleData ==
  {<<>>,
   <<FloatRow(SampleFloat)>>,
   <<ProfileRow(SampleProfile, SampleMeasurements), MeasurementRow(SampleMeasurements[1])>>}

\* coordinates in hundredths of a degree, on and around the box edges
Latitudes == {-4000, -3001, -3000, -2000, -1001, -1000, -1, 0, 1500, 1552, 3000, 3001}

Longitudes == {1000, 1999, 2000, 3999, 4000, 6000, 6800, 8999, 9000, 10000, 10001, 12000, 12001}

(***************************************************************************)
(* State                                                                   *)
(***************************************************************************)
VARIABLES
  call,               \* the invocation of a stateless method under way: its
                      \* inputs, its position and its results so far
  argo_floats,        \* the store's tables, each the sequence of its rows in
  ocean_profiles,     \* insertion order
  depth_measurements,
  bgc_measurements,
  netcdf_files,
  chat_sessions,
  data_embeddings,
  requests,           \* the HTTP requests received, in flight or answered
  now                 \* the store's clock, which also numbers the new rows

store == <<argo_floats, ocean_profiles, depth_measurements, bgc_measurements,
           netcdf_files, chat_sessions, data_embeddings>>

server == <<store, requests, now>>

vars == <<call, server>>

\* the stateless methods are exercised on their own, with no store and no
\* request
NoCall == [op |-> "none", pc |-> "none"]

NoServer ==
  /\ argo_floats = <<>>
  /\ ocean_profiles = <<>>
  /\ depth_measurements = <<>>
  /\ bgc_measurements = <<>>
  /\ netcdf_files = <<>>
  /\ chat_sessions = <<>>
  /\ data_embeddings = <<>>
  /\ requests = <<>>
  /\ now = 0

(***************************************************************************)
(* analyzeQuery on a query                                                 *)
(***************************************************************************)
QueryCall(q) ==
  [op |-> "processQuery", pc |-> "start", query |-> q,
   analysis |-> Unset, data |-> Unset, response |-> Unset]

InitQuery == NoServer /\ \E q \in Queries : call = QueryCall(q)

AnalyzeQuery ==
  /\ call.op = "processQuery"
  /\ call.pc = "start"
  /\ call' = [call EXCEPT !.pc = "analyzed",
                          !.analysis = <<analyzeQuery(call.query)>>]
  /\ UNCHANGED server

NextQuery == AnalyzeQuery

SpecQuery == InitQuery /\ [][NextQuery]_vars

(***************************************************************************)
(* extractParameters on a query                                            *)
(***************************************************************************)
InitParams ==
  /\ NoServer
  /\ \E q \in ParameterQueries :
    call = [op |-> "extractParameters", pc |-> "start", query |-> q,
            params |-> Unset]

ExtractParameters ==
  /\ call.op = "extractParameters"
  /\ call.pc = "start"
  /\ call' = [call EXCEPT !.pc = "done",
                          !.params = <<extractParameters(call.query)>>]
  /\ UNCHANGED server

NextParams == ExtractParameters

SpecParams == InitParams /\ [][NextParams]_vars

(***************************************************************************)
(* The query path of processQuery without the store: classification, then  *)
(* response generation on a data list                                      *)
(***************************************************************************)
InitResponse == NoServer /\ \E q \in ResponseQueries : call = QueryCall(q)

GenerateResponse ==
  /\ call.op = "processQuery"
  /\ call.pc = "analyzed"
  /\ \E d \in SampleData :
       call' = [call EXCEPT !.pc = "done",
                            !.data = <<d>>,
                            !.response =
                              <<generateResponse(call.query, call.analysis[1], d)>>]
  /\ UNCHANGED server

NextResponse == AnalyzeQuery \/ GenerateResponse

SpecResponse == InitResponse /\ [][NextResponse]_vars

(***************************************************************************)
(* processNetCDFFile on a filename                                         *)
(***************************************************************************)
ProfileLatitudes == {1545, 1550, 1555}

ProfileLongitudes == {6815, 6820, 6825}

InitFile ==
  /\ NoServer
  /\ \E f \in Filenames :
    call = [op |-> "processNetCDFFile", pc |-> "start", filename |-> f,
            result |-> Unset]

ProcessNetCDFFile ==
  /\ call.op = "processNetCDFFile"
  /\ call.pc = "start"
  /\ \E lat \in ProfileLatitudes, lon \in ProfileLongitudes :
       call' = [call EXCEPT !.pc = "done",
                            !.result = <<processNetCDFFile(call.filename, 1, lat, lon)>>]
  /\ UNCHANGED server

NextFile == ProcessNetCDFFile

SpecFile == InitFile /\ [][NextFile]_vars

(***************************************************************************)
(* getOceanRegion, both copies, on a coordinate pair                       *)
(***************************************************************************)
InitRegion ==
  /\ NoServer
  /\ \E lat \in Latitudes, lon \in Longitudes :
    call = [op |-> "getOceanRegion", pc |-> "start", lat |-> lat, lon |-> lon,
            region |-> Unset, embeddingsRegion |-> Unset]

ChatGetOceanRegion ==
  /\ call.op = "getOceanRegion"
  /\ call.region = Unset
  /\ call' = [call EXCEPT !.region = <<getOceanRegion(call.lat, call.lon)>>]
  /\ UNCHANGED server

EmbeddingsGetOceanRegion ==
  /\ call.op = "getOceanRegion"
  /\ call.embeddingsRegion = Unset
  /\ call' = [call EXCEPT !.embeddingsRegion =
                            <<embeddingsGetOceanRegion(call.lat, call.lon)>>]
  /\ UNCHANGED server

NextRegion == ChatGetOceanRegion \/ EmbeddingsGetOceanRegion

SpecRegion == InitRegion /\ [][NextRegion]_vars

(***************************************************************************)
(* Properties of the classifier                                            *)
(***************************************************************************)
\* k occurs in q when letter case is ignored
ContainsAnyCase(q, k) ==
  \E i \in 1..(Len(q) - Len(k) + 1) :
    \A j \in 1..Len(k) : LowerChar(q[i + j - 1]) = k[j]

Analyzed == call.op = "processQuery" /\ call.analysis # Unset

\* C1: every query that contains "temperature", in any letter case, is
\* classified temperature_query, whatever other keywords it contains.
C1_TemperatureAlwaysWins ==
  (Analyzed /\ ContainsAnyCase(call.query, kw_temperature))
    => call.analysis[1].type = "temperature_query"

\* a classified query with "temperature" in capitals next to "compare" and
\* a salinity keyword
C1_Witness ==
  /\ Analyzed
  /\ includes(call.query, <<"T", "e", "m", "p", "e", "r", "a", "t", "u", "r", "e">>)
  /\ ContainsAnyCase(call.query, kw_compare)
  /\ ContainsAnyCase(call.query, kw_salinity)
  /\ call.analysis[1].type = "temperature_query"

\* the rules in their fixed order: the keywords of each, and its label
RuleLabels ==
  <<"temperature_query", "salinity_query", "bgc_query", "float_location_query",
    "comparison_query">>

RuleOccurs(n, q) ==
  CASE n = 1 -> \E k \in {kw_temperature, kw_temp} : ContainsAnyCase(q, k)
    [] n = 2 -> \E k \in {kw_salinity, kw_salt} : ContainsAnyCase(q, k)
    [] n = 3 -> \E k \in {kw_oxygen, kw_nitrate, kw_ph, kw_chlorophyll} :
                  ContainsAnyCase(q, k)
    [] n = 4 -> /\ ContainsAnyCase(q, kw_float)
                /\ \E k \in {kw_location, kw_position} : ContainsAnyCase(q, k)
    [] n = 5 -> \E k \in {kw_compare, kw_difference, kw_vs} : ContainsAnyCase(q, k)

FirstRuleLabel(q) ==
  LET occurring == {n \in 1..5 : RuleOccurs(n, q)}
  IN IF occurring = {} THEN "general_query"
     ELSE RuleLabels[CHOOSE n \in occurring : \A m \in occurring : n <= m]

\* C2: the label is that of the first rule, in the order temperature,
\* salinity, BGC, float location, comparison, whose keywords occur in the
\* query, and general_query exactly when no rule's keywords occur.
C2_FirstMatchingRuleWins ==
  Analyzed =>
    /\ call.analysis[1].type = FirstRuleLabel(call.query)
    /\ (call.analysis[1].type = "general_query")
         <=> (\A n \in 1..5 : ~ RuleOccurs(n, call.query))

\* "compare", "float" and "position" with no earlier keyword: classified
\* float_location_query
C2_Witness ==
  /\ Analyzed
  /\ ContainsAnyCase(call.query, kw_compare)
  /\ ContainsAnyCase(call.query, kw_float)
  /\ ContainsAnyCase(call.query, kw_position)
  /\ ~ RuleOccurs(1, call.query) /\ ~ RuleOccurs(2, call.query)
  /\ ~ RuleOccurs(3, call.query)
  /\ call.analysis[1].type = "float_location_query"

(***************************************************************************)
(* Properties of the response generator                                    *)
(***************************************************************************)
Responded == call.op = "processQuery" /\ call.pc = "done"

\* the messages that tell the user that no data was found
NoDataMessages ==
  {TemperatureNoData, SalinityNoData, BGCNoData, LocationNoData, GeneralNoData}

\* C3: for each of the six query types, an empty data list yields that
\* category's fixed "no data" message, whatever the query and parameters.
C3_EmptyDataYieldsNoDataMessage ==
  (Responded /\ call.data[1] = <<>>) =>
    LET type == call.analysis[1].type
        response == call.response[1]
    IN /\ Len(response) = 1
       /\ response[1] \in NoDataMessages
       /\ type = "temperature_query" => response[1] = TemperatureNoData
       /\ type = "salinity_query" => response[1] = SalinityNoData
       /\ type = "bgc_query" => response[1] = BGCNoData
       /\ type = "float_location_query" => response[1] = LocationNoData
       /\ type = "general_query" => response[1] = GeneralNoData

(***************************************************************************)
(* Properties of the region lookup                                         *)
(***************************************************************************)
RegionsComputed ==
  call.op = "getOceanRegion" /\ call.region # Unset /\ call.embeddingsRegion # Unset

BothCopiesGive(name) == call.region = <<name>> /\ call.embeddingsRegion = <<name>>

\* C4 as stated: latitude 15, longitude 68 is "Arabian Sea" and latitude
\* -20, longitude 60 is the fallback "Indian Ocean region", in both copies.
C4_AsStated ==
  RegionsComputed =>
    /\ (call.lat = Deg(15) /\ call.lon = Deg(68)) => BothCopiesGive("Arabian Sea")
    /\ (call.lat = Deg(-20) /\ call.lon = Deg(60))
         => BothCopiesGive("Indian Ocean region")

\* C4 amended: latitude 15, longitude 68 is "Arabian Sea" and latitude -20,
\* longitude 60 is "Indian Ocean" (the second box), in both copies.
C4_RegionLookup ==
  RegionsComputed =>
    /\ (call.lat = Deg(15) /\ call.lon = Deg(68)) => BothCopiesGive("Arabian Sea")
    /\ (call.lat = Deg(-20) /\ call.lon = Deg(60)) => BothCopiesGive("Indian Ocean")

\* both copies have answered for latitude -20, longitude 60
C4_Witness ==
  /\ RegionsComputed
  /\ call.lat = Deg(-20) /\ call.lon = Deg(60)
  /\ BothCopiesGive("Indian Ocean")

(***************************************************************************)
(* Properties of the filename synthesizer                                  *)
(***************************************************************************)
FileProcessed == call.op = "processNetCDFFile" /\ call.pc = "done"

AllDigits(s, from, to) == \A k \in from..to : At(s, k) \in Digits

\* the positions of the underscore that split f as R<digits>_<digits>.nc,
\* the whole of f having that form
FormSplits(f) ==
  {u \in 3..(Len(f) - 4) :
     /\ f[1] = "R"
     /\ f[u] = "_"
     /\ AllDigits(f, 2, u - 1)
     /\ AllDigits(f, u + 1, Len(f) - 3)
     /\ SubSeq(f, Len(f) - 2, Len(f)) = <<".", "n", "c">>}

HasForm(f) == FormSplits(f) # {}

RECURSIVE Pow10(_)
Pow10(n) == IF n = 0 THEN 1 ELSE 10 * Pow10(n - 1)

RECURSIVE WeightedSum(_, _)
WeightedSum(ds, k) ==
  IF k > Len(ds) THEN 0
  ELSE DigitVal(ds[k]) * Pow10(Len(ds) - k) + WeightedSum(ds, k + 1)

\* the number a digit string denotes in decimal
DecimalValue(ds) == WeightedSum(ds, 1)

\* C5: for a filename of the form R<digits>_<digits>.nc the call returns a
\* profile whose floatId and platformNumber are the first digit group as
\* written and whose cycleNumber is the number the second group denotes,
\* leading zeros included.
C5_DigitGroupsExtracted ==
  (FileProcessed /\ HasForm(call.filename)) =>
    LET f == call.filename
        u == CHOOSE u \in FormSplits(f) : TRUE
        result == call.result[1]
    IN /\ ~ result.threw
       /\ result.profile # Unset
       /\ result.profile[1].floatId = SubSeq(f, 2, u - 1)
       /\ result.profile[1].platformNumber = SubSeq(f, 2, u - 1)
       /\ result.profile[1].cycleNumber = DecimalValue(SubSeq(f, u + 1, Len(f) - 3))

\* R5906471_098.nc processed: float 5906471, cycle 98
C5_Witness ==
  /\ FileProcessed
  /\ call.filename = <<"R", "5", "9", "0", "6", "4", "7", "1", "_", "0", "9",
                       "8", ".", "n", "c">>
  /\ call.result[1].profile # Unset
  /\ call.result[1].profile[1].floatId = <<"5", "9", "0", "6", "4", "7", "1">>
  /\ call.result[1].profile[1].cycleNumber = 98

\* C6: for a filename that does not have the form R<digits>_<digits>.nc the
\* call fails with the format error and yields no profile.
C6_OtherNamesRejected ==
  (FileProcessed /\ ~ HasForm(call.filename)) =>
    /\ call.result[1].threw
    /\ call.result[1].profile = Unset
    /\ call.result[1].error
         = <<"Invalid NetCDF filename format: ">> \o call.filename

(***************************************************************************)
(* Properties of the parameter extraction                                  *)
(***************************************************************************)
ParamsExtracted == call.op = "extractParameters" /\ call.pc = "done"

\* the digit run of q that starts at b
DigitRunAt(q, b) ==
  SubSeq(q, b, CHOOSE e \in b..Len(q) :
                 AllDigits(q, b, e) /\ At(q, e + 1) \notin Digits)

\* where "float", in any letter case, is followed by w >= 1 whitespace
\* characters and then a digit: the pairs <<start of "float", first digit>>
FloatNumberPatterns(q) ==
  {pair \in (1..Len(q)) \X (1..Len(q)) :
     /\ \A j \in 1..5 : LowerChar(At(q, pair[1] + j - 1)) = kw_float[j]
     /\ pair[2] > pair[1] + 5
     /\ \A k \in (pair[1] + 5)..(pair[2] - 1) : q[k] \in Whitespace
     /\ q[pair[2]] \in Digits}

\* where seven consecutive digits start
SevenDigitStarts(q) == {i \in 1..Len(q) : AllDigits(q, i, i + 6)}

Least(S) == CHOOSE n \in S : \A m \in S : n <= m

ExpectedFloatId(q) ==
  IF FloatNumberPatterns(q) # {}
  THEN LET first == CHOOSE pair \in FloatNumberPatterns(q) :
                      \A other \in FloatNumberPatterns(q) : pair[1] <= other[1]
       IN <<DigitRunAt(q, first[2])>>
  ELSE IF SevenDigitStarts(q) # {}
  THEN <<SubSeq(q, Least(SevenDigitStarts(q)), Least(SevenDigitStarts(q)) + 6)>>
  ELSE Unset

\* C7: floatId is the digit run that follows "float" and whitespace when
\* the query has such a pattern (the first one), otherwise the first seven
\* consecutive digits of the query, and is unset when the query has
\* neither; "float 5906468" and "5906468" both give "5906468".
C7_FloatIdExtracted ==
  ParamsExtracted =>
    /\ call.params[1].floatId = ExpectedFloatId(call.query)
    /\ call.query \in
         {<<"f", "l", "o", "a", "t", " ", "5", "9", "0", "6", "4", "6", "8">>,
          <<"5", "9", "0", "6", "4", "6", "8">>}
         => call.params[1].floatId = <<(<<"5", "9", "0", "6", "4", "6", "8">>)>>

\* "float 5906468" extracted: floatId 5906468
C7_Witness ==
  /\ ParamsExtracted
  /\ call.query = <<"f", "l", "o", "a", "t", " ", "5", "9", "0", "6", "4", "6", "8">>
  /\ call.params[1].floatId = <<(<<"5", "9", "0", "6", "4", "6", "8">>)>>

\* the starts of the digit runs of q that are followed, after optional
\* whitespace, by a depth unit (m, meter, metre; any letter case)
DepthRunStarts(q) ==
  {b \in 1..Len(q) :
     /\ q[b] \in Digits
     /\ At(q, b - 1) \notin Digits
     /\ \E u \in (b + 1)..Len(q) :
          /\ \A k \in (b + Len(DigitRunAt(q, b)))..(u - 1) : q[k] \in Whitespace
          /\ u >= b + Len(DigitRunAt(q, b))
          /\ \E unit \in {<<"m">>, <<"m", "e", "t", "e", "r">>,
                          <<"m", "e", "t", "r", "e">>} :
               \A j \in 1..Len(unit) : LowerChar(At(q, u + j - 1)) = unit[j]}

ExpectedDepth(q) ==
  IF DepthRunStarts(q) = {} THEN Unset
  ELSE <<DecimalValue(DigitRunAt(q, Least(DepthRunStarts(q))))>>

\* C8: depth is the integer value of the first digit run that is followed,
\* after optional whitespace, by a depth unit, and is unset when the query
\* has no such run; "at 500m depth" gives 500.
C8_DepthExtracted ==
  ParamsExtracted =>
    /\ call.params[1].depth = ExpectedDepth(call.query)
    /\ call.query = <<"a", "t", " ", "5", "0", "0", "m", " ", "d", "e", "p", "t", "h">>
         => call.params[1].depth = <<500>>

\* "at 500m depth" extracted: depth 500
C8_Witness ==
  /\ ParamsExtracted
  /\ call.query = <<"a", "t", " ", "5", "0", "0", "m", " ", "d", "e", "p", "t", "h">>
  /\ call.params[1].depth = <<500>>

(***************************************************************************)
(* The store.  The schema script creates the tables empty; the sample data *)
(* script fills them.  Row ids are the rows' numbers in insertion order,   *)
(* instants of 2024 are written MMDDhhmm, coordinates are hundredths of a  *)
(* degree and temperatures thousandths.                                    *)
(***************************************************************************)
SeedFloats ==
  <<[float_id |-> <<"5", "9", "0", "6", "4", "6", "8">>,
     deployment_latitude |-> 1550, deployment_longitude |-> 6820,
     status |-> "active", last_transmission |-> 12201030],
    [float_id |-> <<"5", "9", "0", "6", "4", "6", "9">>,
     deployment_latitude |-> 1280, deployment_longitude |-> 7050,
     status |-> "active", last_transmission |-> 12191415],
    [float_id |-> <<"5", "9", "0", "6", "4", "7", "0">>,
     deployment_latitude |-> 1820, deployment_longitude |-> 6580,
     status |-> "active", last_transmission |-> 12180945],
    [float_id |-> <<"5", "9", "0", "6", "4", "7", "1">>,
     deployment_latitude |-> 2010, deployment_longitude |-> 7230,
     status |-> "inactive", last_transmission |-> 11151620]>>

SeedProfiles ==
  <<[id |-> 1, float_id |-> <<"5", "9", "0", "6", "4", "6", "8">>,
     profile_date |-> 12201030, latitude |-> 1552, longitude |-> 6818,
     cycle_number |-> 245],
    [id |-> 2, float_id |-> <<"5", "9", "0", "6", "4", "6", "8">>,
     profile_date |-> 12101115, latitude |-> 1548, longitude |-> 6825,
     cycle_number |-> 244],
    [id |-> 3, float_id |-> <<"5", "9", "0", "6", "4", "6", "9">>,
     profile_date |-> 12191415, latitude |-> 1285, longitude |-> 7052,
     cycle_number |-> 189],
    [id |-> 4, float_id |-> <<"5", "9", "0", "6", "4", "6", "9">>,
     profile_date |-> 12091330, latitude |-> 1282, longitude |-> 7048,
     cycle_number |-> 188],
    [id |-> 5, float_id |-> <<"5", "9", "0", "6", "4", "7", "0">>,
     profile_date |-> 12180945, latitude |-> 1825, longitude |-> 6582,
     cycle_number |-> 156],
    [id |-> 6, float_id |-> <<"5", "9", "0", "6", "4", "7", "1">>,
     profile_date |-> 11151620, latitude |-> 2008, longitude |-> 7235,
     cycle_number |-> 98]>>

SeedDepths ==
  <<5, 10, 20, 30, 50, 75, 100, 125, 150, 200, 250, 300, 400, 500, 600, 750,
    1000, 1250, 1500, 1750, 2000>>

\* the temperature column of the sample rows, in thousandths
SeedTemperature(depth) ==
  IF depth < 100 THEN 28500 - depth * 20
  ELSE IF depth < 500 THEN 26500 - depth * 10
  ELSE 4200 - depth

SeedMeasurements ==
  [k \in 1..Len(SeedDepths) |->
     [id |-> k, profile_id |-> 1, depth_meters |-> SeedDepths[k],
      temperature_celsius |-> SeedTemperature(SeedDepths[k])]]

SeedBGCDepths ==
  <<5, 10, 20, 30, 50, 75, 100, 125, 150, 200, 250, 300, 400, 500, 600, 750,
    1000>>

SeedBGCMeasurements ==
  [k \in 1..Len(SeedBGCDepths) |->
     [id |-> k, profile_id |-> 1, depth_meters |-> SeedBGCDepths[k]]]

\* a column left out of an insert is null: Unset
SeedFiles ==
  <<[filename |->
       <<"R", "5", "9", "0", "6", "4", "6", "8", "_", "2", "4", "5", ".", "n", "c">>,
     file_size_bytes |-> <<2048576>>, processing_status |-> "completed",
     processed_at |-> <<12201100>>, error_message |-> Unset],
    [filename |->
       <<"R", "5", "9", "0", "6", "4", "6", "9", "_", "1", "8", "9", ".", "n", "c">>,
     file_size_bytes |-> <<1876543>>, processing_status |-> "completed",
     processed_at |-> <<12191500>>, error_message |-> Unset],
    [filename |->
       <<"R", "5", "9", "0", "6", "4", "7", "0", "_", "1", "5", "6", ".", "n", "c">>,
     file_size_bytes |-> <<2234567>>, processing_status |-> "completed",
     processed_at |-> <<12181030>>, error_message |-> Unset],
    [filename |->
       <<"R", "5", "9", "0", "6", "4", "7", "1", "_", "0", "9", "8", ".", "n", "c">>,
     file_size_bytes |-> <<1987654>>, processing_status |-> "completed",
     processed_at |-> <<11151700>>, error_message |-> Unset]>>

\* the three rows are inserted by one statement, hence at one instant
SeedChatSessions ==
  <<[id |-> 1, session_id |-> "session_001",
     user_query |->
       <<"S", "h", "o", "w", " ", "m", "e", " ", "t", "e", "m", "p", "e",
         "r", "a", "t", "u", "r", "e", " ", "p", "r", "o", "f", "i", "l",
         "e", "s", " ", "f", "o", "r", " ", "f", "l", "o", "a", "t", " ",
         "5", "9", "0", "6", "4", "6", "8">>,
     ai_response |->
       <<"Here are the temperature profiles for ARGO float 5906468. The data shows typical tropical Indian Ocean characteristics with warm surface waters around 28 degC decreasing to about 4 degC at 2000m depth.">>,
     query_type |-> "data_query", execution_time_ms |-> 1250, created_at |-> 0],
    [id |-> 2, session_id |-> "session_002",
     user_query |->
       <<"W", "h", "a", "t", " ", "i", "s", " ", "t", "h", "e", " ", "s",
         "a", "l", "i", "n", "i", "t", "y", " ", "r", "a", "n", "g", "e",
         " ", "i", "n", " ", "t", "h", "e", " ", "A", "r", "a", "b", "i",
         "a", "n", " ", "S", "e", "a", "?">>,
     ai_response |->
       <<"Based on the available ARGO data, salinity in the Arabian Sea region ranges from 34.8 PSU at the surface to about 35.2 PSU at intermediate depths, showing the influence of high evaporation rates.">>,
     query_type |-> "analysis_query", execution_time_ms |-> 2100, created_at |-> 0],
    [id |-> 3, session_id |-> "session_003",
     user_query |->
       <<"C", "o", "m", "p", "a", "r", "e", " ", "o", "x", "y", "g", "e",
         "n", " ", "l", "e", "v", "e", "l", "s", " ", "b", "e", "t", "w",
         "e", "e", "n", " ", "d", "i", "f", "f", "e", "r", "e", "n", "t",
         " ", "d", "e", "p", "t", "h", "s">>,
     ai_response |->
       <<"Oxygen concentrations show a typical profile with highest levels (220 umol/kg) near the surface due to atmospheric exchange and photosynthesis, decreasing to minimum values around 500m depth in the oxygen minimum zone.">>,
     query_type |-> "comparison_query", execution_time_ms |-> 1800, created_at |-> 0]>>

(***************************************************************************)
(* Store queries.  A query answers with its rows or with an error; the     *)
(* client hands the error back in the result instead of throwing.          *)
(***************************************************************************)
\* .order(column): the rows by that column; rows that tie keep their
\* insertion order
RECURSIVE OrderBy(_, _, _)
OrderBy(rows, column, ascending) ==
  IF rows = <<>> THEN <<>>
  ELSE
    LET Precedes(a, b) == IF ascending THEN a[column] < b[column]
                          ELSE a[column] > b[column]
        first == CHOOSE k \in 1..Len(rows) :
                   /\ \A j \in 1..Len(rows) : ~ Precedes(rows[j], rows[k])
                   /\ \A j \in 1..(k - 1) : Precedes(rows[k], rows[j])
        rest == [j \in 1..(Len(rows) - 1) |->
                   IF j < first THEN rows[j] ELSE rows[j + 1]]
    IN <<rows[first]>> \o OrderBy(rest, column, ascending)

\* .limit(n)
Limit(rows, n) == IF Len(rows) <= n THEN rows ELSE SubSeq(rows, 1, n)

\* from("argo_floats").select("*").eq("float_id", floatId)
SelectFloats(floatId) ==
  LET hit == SelectSeq(argo_floats, LAMBDA f : f.float_id = floatId)
  IN [k \in 1..Len(hit) |-> FloatRow(hit[k])]

\* the depth_measurements(*) embedded in a profile row
MeasurementsOf(p) ==
  SelectSeq(depth_measurements, LAMBDA m : m.profile_id = p.id)

\* from("ocean_profiles").select("*, argo_floats(*), depth_measurements(*),
\* bgc_measurements(*)").order("profile_date", descending).limit(n)
SelectProfiles(n) ==
  LET hit == Limit(OrderBy(ocean_profiles, "profile_date", FALSE), n)
  IN [k \in 1..Len(hit) |-> ProfileRow(hit[k], MeasurementsOf(hit[k]))]

\* from("depth_measurements").select("*, ocean_profiles(*, argo_floats(*))")
\* .eq("ocean_profiles.float_id", floatId).order("depth_meters").limit(50):
\* the filter is on the embedded profile and empties the embedding of the
\* rows of other floats; it does not drop rows
SelectMeasurements(floatId) ==
  LET hit == Limit(OrderBy(depth_measurements, "depth_meters", TRUE), 50)
  IN [k \in 1..Len(hit) |-> MeasurementRow(hit[k])]

\* from("chat_sessions").select("*").eq("session_id", sessionId)
\* .order("created_at", ascending)
SelectChatSessions(sessionId) ==
  OrderBy(SelectSeq(chat_sessions, LAMBDA c : c.session_id = sessionId),
          "created_at", TRUE)

\* session_id is UNIQUE NOT NULL: an insert for a session id the table
\* already holds is refused
InsertAllowed(sessionId) ==
  \A k \in 1..Len(chat_sessions) : chat_sessions[k].session_id # sessionId

\* a row that is labelled the way the sample rows are
ChatSessionRow_Sample(sessionId, userQuery, aiResponse, queryType, executionTime) ==
  [id |-> now + 1, session_id |-> sessionId, user_query |-> userQuery,
   ai_response |-> aiResponse,
   query_type |-> IF queryType = "general_query" THEN "data_query"
                  ELSE queryType,
   execution_time_ms |-> executionTime, created_at |-> now + 1]

\* the row an insert adds: id and created_at take their defaults
ChatSessionRow(sessionId, userQuery, aiResponse, queryType, executionTime) ==
  [id |-> now + 1, session_id |-> sessionId, user_query |-> userQuery,
   ai_response |-> aiResponse, query_type |-> queryType,
   execution_time_ms |-> executionTime, created_at |-> now + 1]

\* getChatHistory's forEach: a user and an assistant message for each row
RECURSIVE ChatMessages(_)
ChatMessages(rows) ==
  IF rows = <<>> THEN <<>>
  ELSE LET session == Head(rows)
       IN <<[id |-> <<session.id, "-user">>, role |-> "user",
             content |-> session.user_query,
             timestamp |-> session.created_at,
             queryType |-> session.query_type,
             executionTime |-> session.execution_time_ms],
            [id |-> <<session.id, "-assistant">>, role |-> "assistant",
             content |-> session.ai_response,
             timestamp |-> session.created_at,
             queryType |-> session.query_type,
             executionTime |-> session.execution_time_ms]>>
            \o ChatMessages(Tail(rows))

(***************************************************************************)
(* The chat route.  A request is served in steps, one for each store call  *)
(* it awaits, and the requests in flight interleave.                       *)
(***************************************************************************)
MaxRequests == 2

SessionIds == {"s1", "session_001"}

\* "vs", "hello", "float 5906468 location", "temperature float 5906468"
ServerQueries ==
  {<<"v", "s">>,
   <<"h", "e", "l", "l", "o">>,
   <<"f", "l", "o", "a", "t", " ", "5", "9", "0", "6", "4", "6", "8", " ",
     "l", "o", "c", "a", "t", "i", "o", "n">>,
   <<"t", "e", "m", "p", "e", "r", "a", "t", "u", "r", "e", " ", "f", "l",
     "o", "a", "t", " ", "5", "9", "0", "6", "4", "6", "8">>}

\* a field of a request that may be missing, or present and empty
QueryFields == {Unset, << <<>> >>} \cup {<<q>> : q \in ServerQueries}

SessionIdFields == {Unset, <<"">>} \cup {<<s>> : s \in SessionIds}

\* Date.now() - startTime
ExecutionTimes == {3, 40}

\* a validation that lets an empty field through
Missing_OnlyAbsent(field, empty) == field = Unset

\* !field of a string field
Missing(field, empty) == field = Unset \/ field[1] = empty

\* errors lists the store calls and the client creations that failed
\* while the request was served
Request(method, query, sessionId) ==
  [route |-> "/api/chat", method |-> method, query |-> query,
   sessionId |-> sessionId, pc |-> "received", analysis |-> Unset,
   data |-> <<>>, errors |-> <<>>, reply |-> Unset]

\* NextResponse.json(body, { status })
Reply(status, body) == [status |-> status, body |-> body]

Answered(r, reply) == [r EXCEPT !.pc = "answered", !.reply = <<reply>>]

Failed(r, what) == [r EXCEPT !.errors = Append(r.errors, what)]

\* the store calls of processQuery, in order, and whether the analysis
\* asks for each
Stages == <<"floats", "profiles", "measurements", "store">>

\* the profiles are read for every query
Asked_ProfilesAlways(analysis, stage) ==
  CASE stage = "floats" -> analysis.parameters.floatId # Unset
    [] stage = "profiles" -> TRUE
    [] stage = "measurements" ->
         /\ "depth_measurements" \in analysis.dataNeeded
         /\ analysis.parameters.floatId # Unset
    [] OTHER -> TRUE

Asked(analysis, stage) ==
  CASE stage = "floats" -> analysis.parameters.floatId # Unset
    [] stage = "profiles" -> "ocean_profiles" \in analysis.dataNeeded
    [] stage = "measurements" ->
         /\ "depth_measurements" \in analysis.dataNeeded
         /\ analysis.parameters.floatId # Unset
    [] OTHER -> TRUE

StageAfter(analysis, n) ==
  Stages[CHOOSE k \in (n + 1)..Len(Stages) :
           /\ Asked(analysis, Stages[k])
           /\ \A j \in (n + 1)..(k - 1) : ~ Asked(analysis, Stages[j])]

Init ==
  /\ call = NoCall
  /\ \/ /\ argo_floats = <<>>
        /\ ocean_profiles = <<>>
        /\ depth_measurements = <<>>
        /\ bgc_measurements = <<>>
        /\ netcdf_files = <<>>
        /\ chat_sessions = <<>>
     \/ /\ argo_floats = SeedFloats
        /\ ocean_profiles = SeedProfiles
        /\ depth_measurements = SeedMeasurements
        /\ bgc_measurements = SeedBGCMeasurements
        /\ netcdf_files = SeedFiles
        /\ chat_sessions = SeedChatSessions
  /\ data_embeddings = <<>>
  /\ requests = <<>>
  /\ now = Len(chat_sessions)

\* a POST /api/chat arrives and its body is read
ReceivePost ==
  /\ Len(requests) < MaxRequests
  /\ \E query \in QueryFields, sessionId \in SessionIdFields :
       requests' = Append(requests, Request("POST", query, sessionId))
  /\ UNCHANGED <<call, store, now>>

\* a GET /api/chat arrives
ReceiveGet ==
  /\ Len(requests) < MaxRequests
  /\ \E sessionId \in SessionIdFields :
       requests' = Append(requests, Request("GET", Unset, sessionId))
  /\ UNCHANGED <<call, store, now>>

\* POST up to the first store call: the validation, the client, the
\* analysis of the query
PostChat(i) ==
  LET r == requests[i]
  IN /\ r.route = "/api/chat"
     /\ r.method = "POST"
     /\ r.pc = "received"
     /\ IF Missing(r.query, <<>>) \/ Missing(r.sessionId, "")
        THEN requests' =
               [requests EXCEPT ![i] =
                  Answered(r, Reply(400,
                    [error |-> "Query and session ID are required"]))]
        ELSE \E client \in {"created", "failed"} :
               IF client = "failed"
               THEN requests' =
                      [requests EXCEPT ![i] =
                         Answered(Failed(r, "createClient"), Reply(500,
                           [error |-> "Failed to process chat query",
                            details |-> "createClient"]))]
               ELSE LET queryAnalysis == analyzeQuery(r.query[1])
                    IN requests' =
                         [requests EXCEPT ![i] =
                            [r EXCEPT !.analysis = <<queryAnalysis>>,
                                      !.pc = StageAfter(queryAnalysis, 0)]]
     /\ UNCHANGED <<call, store, now>>

\* one store read of retrieveRelevantData: its rows are pushed onto the
\* data list, an error leaves the list as it is
Retrieved(i, stage, n, rows) ==
  LET r == requests[i]
  IN /\ r.method = "POST"
     /\ r.pc = stage
     /\ \E outcome \in {"rows", "error"} :
          requests' =
            [requests EXCEPT ![i] =
               [r EXCEPT !.data = IF outcome = "rows" THEN r.data \o rows
                                  ELSE r.data,
                         !.errors = IF outcome = "rows" THEN r.errors
                                    ELSE Append(r.errors, stage),
                         !.pc = StageAfter(r.analysis[1], n)]]
     /\ UNCHANGED <<call, store, now>>

RetrieveFloats(i) ==
  /\ requests[i].pc = "floats"
  /\ Retrieved(i, "floats", 1,
               SelectFloats(requests[i].analysis[1].parameters.floatId[1]))

RetrieveProfiles(i) ==
  /\ requests[i].pc = "profiles"
  /\ Retrieved(i, "profiles", 2,
               SelectProfiles(
                 IF requests[i].analysis[1].parameters.floatId # Unset
                 THEN 10 ELSE 5))

RetrieveMeasurements(i) ==
  /\ requests[i].pc = "measurements"
  /\ Retrieved(i, "measurements", 3,
               SelectMeasurements(
                 requests[i].analysis[1].parameters.floatId[1]))

\* the rest of processQuery and of POST: the response is generated, the
\* chat session is inserted, an insert the store refuses is logged and
\* nothing more, and the result is answered
StoreChatSession(i) ==
  LET r == requests[i]
      queryAnalysis == r.analysis[1]
      response == generateResponse(r.query[1], queryAnalysis, r.data)
  IN /\ r.method = "POST"
     /\ r.pc = "store"
     /\ \E executionTime \in ExecutionTimes, outcome \in {"inserted", "error"} :
          LET inserted == outcome = "inserted" /\ InsertAllowed(r.sessionId[1])
          IN
          /\ IF inserted
             THEN /\ chat_sessions' =
                       Append(chat_sessions,
                              ChatSessionRow(r.sessionId[1], r.query[1],
                                             response, queryAnalysis.type,
                                             executionTime))
                  /\ now' = now + 1
             ELSE UNCHANGED <<chat_sessions, now>>
          /\ requests' =
               [requests EXCEPT ![i] =
                  Answered(IF inserted THEN r ELSE Failed(r, "store"),
                           Reply(200,
                    [success |-> TRUE, response |-> response,
                     queryType |-> queryAnalysis.type,
                     executionTime |-> executionTime,
                     dataUsed |-> Len(r.data),
                     visualizations |-> queryAnalysis.visualizations]))]
     /\ UNCHANGED <<call, argo_floats, ocean_profiles, depth_measurements,
                    bgc_measurements, netcdf_files, data_embeddings>>

\* GET up to the store call: the validation and the client
GetChat(i) ==
  LET r == requests[i]
  IN /\ r.route = "/api/chat"
     /\ r.method = "GET"
     /\ r.pc = "received"
     /\ IF Missing(r.sessionId, "")
        THEN requests' =
               [requests EXCEPT ![i] =
                  Answered(r, Reply(400,
                    [error |-> "Session ID parameter is required"]))]
        ELSE \E client \in {"created", "failed"} :
               requests' =
                 [requests EXCEPT ![i] =
                    IF client = "failed"
                    THEN Answered(Failed(r, "createClient"), Reply(500,
                           [error |-> "Failed to fetch chat history"]))
                    ELSE [r EXCEPT !.pc = "history"]]
     /\ UNCHANGED <<call, store, now>>

\* getChatHistory's select and the answer of GET: on a store error the
\* history is the empty list
GetChatHistory(i) ==
  LET r == requests[i]
  IN /\ r.method = "GET"
     /\ r.pc = "history"
     /\ \E outcome \in {"rows", "error"} :
          LET history == IF outcome = "rows"
                         THEN ChatMessages(SelectChatSessions(r.sessionId[1]))
                         ELSE <<>>
          IN requests' =
               [requests EXCEPT ![i] =
                  Answered(IF outcome = "rows" THEN r
                           ELSE Failed(r, "history"),
                           Reply(200,
                    [success |-> TRUE, messages |-> history,
                     count |-> Len(history)]))]
     /\ UNCHANGED <<call, store, now>>

(***************************************************************************)
(* The process-netcdf route.  POST runs processAndStore, one step for each *)
(* call it awaits; GET reads the file's status row.                        *)
(***************************************************************************)
\* "R5906468_245.nc" (a file and a float of the sample data), "R7_1.nc",
\* "notes.txt"
ProcessFilenames ==
  {<<"R", "5", "9", "0", "6", "4", "6", "8", "_", "2", "4", "5", ".", "n",
     "c">>,
   <<"R", "7", "_", "1", ".", "n", "c">>,
   <<"n", "o", "t", "e", "s", ".", "t", "x", "t">>}

FilenameFields == {Unset, << <<>> >>} \cup {<<f>> : f \in ProcessFilenames}

FilePathFields == {Unset, <<"/data/argo">>}

\* the two Math.random() draws of a synthesized profile, at their middle
DrawnLatitude == 1550

DrawnLongitude == 6820

ProcessRequest(method, filename, filePath) ==
  [route |-> "/api/process-netcdf", method |-> method,
   filename |-> filename, filePath |-> filePath, pc |-> "received",
   profile |-> Unset, profileId |-> Unset, thrown |-> Unset,
   statusWrites |-> <<>>, errors |-> <<>>, reply |-> Unset]

\* a value that is thrown: an Error with its message, or the error object
\* a store call answered, which is not an Error
ErrorThrown(message) == [isError |-> TRUE, message |-> message]

StoreError(message) == [isError |-> FALSE, message |-> message]

\* a report that always carries the message of what was thrown
ErrorDetail_AlwaysMessage(thrown) == thrown.message

\* error instanceof Error ? error.message : "Unknown error"
ErrorDetail(thrown) ==
  IF thrown.isError THEN thrown.message ELSE <<"Unknown error">>

\* from("netcdf_files").update({ processing_status, processed_at,
\* error_message? }).eq("filename", filename), at instant at
UpdatedFiles(filename, status, errorMessage, at) ==
  [k \in 1..Len(netcdf_files) |->
     IF netcdf_files[k].filename = filename
     THEN [netcdf_files[k] EXCEPT
             !.processing_status = status,
             !.processed_at = <<at>>,
             !.error_message = IF errorMessage # Unset /\ errorMessage[1] # <<>>
                               THEN errorMessage ELSE @]
     ELSE netcdf_files[k]]

\* a POST /api/process-netcdf arrives and its body is read
ReceiveProcessPost ==
  /\ Len(requests) < MaxRequests
  /\ \E filename \in FilenameFields, filePath \in FilePathFields :
       requests' = Append(requests, ProcessRequest("POST", filename, filePath))
  /\ UNCHANGED <<call, store, now>>

\* a GET /api/process-netcdf arrives
ReceiveProcessGet ==
  /\ Len(requests) < MaxRequests
  /\ \E filename \in FilenameFields :
       requests' = Append(requests, ProcessRequest("GET", filename, Unset))
  /\ UNCHANGED <<call, store, now>>

\* POST up to the first store call: the validation and the client.  A
\* client that cannot be created fails updateFileStatus in the try block
\* and again in the catch block, and that Error reaches the route.
PostProcess(i) ==
  LET r == requests[i]
  IN /\ r.route = "/api/process-netcdf"
     /\ r.method = "POST"
     /\ r.pc = "received"
     /\ IF Missing(r.filename, <<>>) \/ Missing(r.filePath, "")
        THEN requests' =
               [requests EXCEPT ![i] =
                  Answered(r, Reply(400,
                    [error |-> "Filename and file path are required"]))]
        ELSE \E client \in {"created", "failed"} :
               requests' =
                 [requests EXCEPT ![i] =
                    IF client = "failed"
                    THEN Answered(Failed(r, "createClient"), Reply(500,
                           [error |-> "Failed to process NetCDF file",
                            details |-> ErrorDetail(ErrorThrown(<<"createClient">>))]))
                    ELSE [r EXCEPT !.pc = "processing"]]
     /\ UNCHANGED <<call, store, now>>

\* the arguments of a call of updateFileStatus; a request keeps those of its
\* calls in statusWrites
StatusWrite(status, errorMessage) ==
  [status |-> status, errorMessage |-> errorMessage]

\* one call of updateFileStatus by request i, which then stands at pc with
\* the given reply: the update reaches the rows of the filename, or the
\* store answers an error, which is logged and nothing more
FileStatusWritten(i, status, errorMessage, pc, reply) ==
  LET r == requests[i]
  IN \E outcome \in {"updated", "error"} :
       /\ netcdf_files' =
            IF outcome = "updated"
            THEN UpdatedFiles(r.filename[1], status, errorMessage, now)
            ELSE netcdf_files
       /\ requests' =
            [requests EXCEPT ![i] =
               [(IF outcome = "updated" THEN r ELSE Failed(r, "status"))
                  EXCEPT !.pc = pc, !.reply = reply,
                         !.statusWrites =
                           Append(@, StatusWrite(status, errorMessage))]]
       /\ UNCHANGED <<call, argo_floats, ocean_profiles, depth_measurements,
                      bgc_measurements, chat_sessions, data_embeddings, now>>

\* a run that goes on to the synthesis without a status write
MarkProcessing_Skipped(i) ==
  /\ requests[i].pc = "processing"
  /\ requests' = [requests EXCEPT ![i] = [@ EXCEPT !.pc = "synthesize"]]
  /\ UNCHANGED <<call, store, now>>

\* processAndStore: updateFileStatus(filename, "processing")
MarkProcessing(i) ==
  /\ requests[i].pc = "processing"
  /\ FileStatusWritten(i, "processing", Unset, "synthesize", Unset)

\* processAndStore: processNetCDFFile(filename, filePath), which returns a
\* profile or throws
Synthesize(i) ==
  LET r == requests[i]
      result == processNetCDFFile(r.filename[1], now, DrawnLatitude,
                                  DrawnLongitude)
  IN /\ r.pc = "synthesize"
     /\ requests' =
          [requests EXCEPT ![i] =
             IF result.threw
             THEN [r EXCEPT !.pc = "failing",
                            !.thrown = <<ErrorThrown(result.error)>>]
             ELSE [r EXCEPT !.pc = "upsertFloat",
                            !.profile = result.profile]]
     /\ UNCHANGED <<call, store, now>>

\* the noise-free reading calculateTemperature gives at a depth, in
\* thousandths
calculateTemperature(depth) ==
  IF depth < 100 THEN 28500 - depth * 20
  ELSE IF depth < 500 THEN 26500 - depth * 10
  ELSE 4200 - depth

\* float_id is UNIQUE NOT NULL
FloatIdTaken(floatId) ==
  \E k \in 1..Len(argo_floats) : argo_floats[k].float_id = floatId

\* a refused store write that is noted and passed over
WriteRefused_PassedOver(i, what, message) ==
  [Failed(requests[i], what) EXCEPT !.pc = "completing"]

\* a store write of storeProfileData by request i that the store refuses:
\* the error object is thrown to processAndStore
WriteRefused(i, what, message) ==
  [Failed(requests[i], what) EXCEPT !.pc = "failing",
                                    !.thrown = <<StoreError(message)>>]

\* storeProfileData: from("argo_floats").upsert({...}).  The row carries no
\* id, so the upsert, which resolves conflicts on the primary key, inserts a
\* new row, and the store refuses it when the float id is already there.
UpsertFloat(i) ==
  LET r == requests[i]
      profile == r.profile[1]
  IN /\ r.pc = "upsertFloat"
     /\ \E outcome \in {"written", "error"} :
          IF outcome = "error"
          THEN /\ requests' =
                    [requests EXCEPT ![i] =
                       WriteRefused(i, "upsertFloat", <<"store error">>)]
               /\ UNCHANGED argo_floats
          ELSE IF FloatIdTaken(profile.floatId)
          THEN /\ requests' =
                    [requests EXCEPT ![i] =
                       WriteRefused(i, "upsertFloat",
                         <<"duplicate key value violates unique constraint">>)]
               /\ UNCHANGED argo_floats
          ELSE /\ argo_floats' =
                    Append(argo_floats,
                           [float_id |-> profile.floatId,
                            deployment_latitude |-> profile.latitude,
                            deployment_longitude |-> profile.longitude,
                            status |-> "active",
                            last_transmission |-> profile.profileDate])
               /\ requests' = [requests EXCEPT ![i] =
                                 [r EXCEPT !.pc = "insertProfile"]]
     /\ UNCHANGED <<call, ocean_profiles, depth_measurements,
                    bgc_measurements, netcdf_files, chat_sessions,
                    data_embeddings, now>>

\* a profile write that replaces the newest stored profile instead of adding
\* a row
InsertProfile_Overwrites(i) ==
  LET r == requests[i]
      profile == r.profile[1]
      id == IF ocean_profiles = <<>> THEN 1 ELSE Len(ocean_profiles)
      row == [id |-> id, float_id |-> profile.floatId,
              profile_date |-> profile.profileDate,
              latitude |-> profile.latitude, longitude |-> profile.longitude,
              cycle_number |-> profile.cycleNumber]
  IN /\ r.pc = "insertProfile"
     /\ ocean_profiles' = IF ocean_profiles = <<>> THEN <<row>>
                          ELSE [ocean_profiles EXCEPT ![id] = row]
     /\ requests' = [requests EXCEPT ![i] =
                       [r EXCEPT !.pc = "insertDepths", !.profileId = <<id>>]]
     /\ UNCHANGED <<call, argo_floats, depth_measurements, bgc_measurements,
                    netcdf_files, chat_sessions, data_embeddings, now>>

\* storeProfileData: from("ocean_profiles").insert({...}).select("id")
\* .single()
InsertProfile(i) ==
  LET r == requests[i]
      profile == r.profile[1]
      id == Len(ocean_profiles) + 1
  IN /\ r.pc = "insertProfile"
     /\ \E outcome \in {"written", "error"} :
          IF outcome = "written" /\ FloatIdTaken(profile.floatId)
          THEN /\ ocean_profiles' =
                    Append(ocean_profiles,
                           [id |-> id, float_id |-> profile.floatId,
                            profile_date |-> profile.profileDate,
                            latitude |-> profile.latitude,
                            longitude |-> profile.longitude,
                            cycle_number |-> profile.cycleNumber])
               /\ requests' = [requests EXCEPT ![i] =
                                 [r EXCEPT !.pc = "insertDepths",
                                           !.profileId = <<id>>]]
          ELSE /\ requests' =
                    [requests EXCEPT ![i] =
                       WriteRefused(i, "insertProfile", <<"store error">>)]
               /\ UNCHANGED ocean_profiles
     /\ UNCHANGED <<call, argo_floats, depth_measurements, bgc_measurements,
                    netcdf_files, chat_sessions, data_embeddings, now>>

\* a depth insert whose rows carry the id after the one of the new profile
InsertDepthMeasurements_NextId(i) ==
  LET r == requests[i]
      measurements == r.profile[1].measurements
      rows == [k \in 1..Len(measurements) |->
                 [id |-> Len(depth_measurements) + k,
                  profile_id |-> r.profileId[1] + 1,
                  depth_meters |-> measurements[k].depth,
                  temperature_celsius |->
                    calculateTemperature(measurements[k].depth)]]
  IN /\ r.pc = "insertDepths"
     /\ \E outcome \in {"written", "error"} :
          IF outcome = "written"
          THEN /\ depth_measurements' = depth_measurements \o rows
               /\ requests' = [requests EXCEPT ![i] =
                                 [r EXCEPT !.pc = "insertBGC"]]
          ELSE /\ requests' =
                    [requests EXCEPT ![i] =
                       WriteRefused(i, "insertDepths", <<"store error">>)]
               /\ UNCHANGED depth_measurements
     /\ UNCHANGED <<call, argo_floats, ocean_profiles, bgc_measurements,
                    netcdf_files, chat_sessions, data_embeddings, now>>

\* storeProfileData: from("depth_measurements").insert(depthMeasurements)
InsertDepthMeasurements(i) ==
  LET r == requests[i]
      measurements == r.profile[1].measurements
      rows == [k \in 1..Len(measurements) |->
                 [id |-> Len(depth_measurements) + k,
                  profile_id |-> r.profileId[1],
                  depth_meters |-> measurements[k].depth,
                  temperature_celsius |->
                    calculateTemperature(measurements[k].depth)]]
  IN /\ r.pc = "insertDepths"
     /\ \E outcome \in {"written", "error"} :
          IF outcome = "written"
          THEN /\ depth_measurements' = depth_measurements \o rows
               /\ requests' = [requests EXCEPT ![i] =
                                 [r EXCEPT !.pc = "insertBGC"]]
          ELSE /\ requests' =
                    [requests EXCEPT ![i] =
                       WriteRefused(i, "insertDepths", <<"store error">>)]
               /\ UNCHANGED depth_measurements
     /\ UNCHANGED <<call, argo_floats, ocean_profiles, bgc_measurements,
                    netcdf_files, chat_sessions, data_embeddings, now>>

\* storeProfileData: from("bgc_measurements").insert(bgcMeasurements)
InsertBGCMeasurements(i) ==
  LET r == requests[i]
      bgcData == r.profile[1].bgcData
      rows == [k \in 1..Len(bgcData) |->
                 [id |-> Len(bgc_measurements) + k,
                  profile_id |-> r.profileId[1],
                  depth_meters |-> bgcData[k].depth]]
  IN /\ r.pc = "insertBGC"
     /\ \E outcome \in {"written", "error"} :
          IF outcome = "written"
          THEN /\ bgc_measurements' = bgc_measurements \o rows
               /\ requests' = [requests EXCEPT ![i] =
                                 [r EXCEPT !.pc = "completing"]]
          ELSE /\ requests' =
                    [requests EXCEPT ![i] =
                       WriteRefused(i, "insertBGC", <<"store error">>)]
               /\ UNCHANGED bgc_measurements
     /\ UNCHANGED <<call, argo_floats, ocean_profiles, depth_measurements,
                    netcdf_files, chat_sessions, data_embeddings, now>>

\* processAndStore: updateFileStatus(filename, "completed"), and POST's
\* success answer
MarkCompleted(i) ==
  /\ requests[i].pc = "completing"
  /\ FileStatusWritten(i, "completed", Unset, "answered",
       <<Reply(200, [success |-> TRUE,
                     message |-> <<"Successfully processed ">>
                                   \o requests[i].filename[1],
                     filename |-> requests[i].filename[1]])>>)

\* processAndStore's catch: updateFileStatus(filename, "error", message),
\* the rethrow, and POST's catch
MarkError(i) ==
  /\ requests[i].pc = "failing"
  /\ FileStatusWritten(i, "error", <<ErrorDetail(requests[i].thrown[1])>>,
       "answered",
       <<Reply(500, [error |-> "Failed to process NetCDF file",
                     details |-> ErrorDetail(requests[i].thrown[1])])>>)

\* GET up to the store call: the validation and the client
GetProcess(i) ==
  LET r == requests[i]
  IN /\ r.route = "/api/process-netcdf"
     /\ r.method = "GET"
     /\ r.pc = "received"
     /\ IF Missing(r.filename, <<>>)
        THEN requests' =
               [requests EXCEPT ![i] =
                  Answered(r, Reply(400,
                    [error |-> "Filename parameter is required"]))]
        ELSE \E client \in {"created", "failed"} :
               requests' =
                 [requests EXCEPT ![i] =
                    IF client = "failed"
                    THEN Answered(Failed(r, "createClient"), Reply(500,
                           [error |-> "Failed to check file status"]))
                    ELSE [r EXCEPT !.pc = "status"]]
     /\ UNCHANGED <<call, store, now>>

\* GET: from("netcdf_files").select("*").eq("filename", filename).single(),
\* which answers an error unless exactly one row matches
GetFileStatus(i) ==
  LET r == requests[i]
      found == SelectSeq(netcdf_files, LAMBDA f : f.filename = r.filename[1])
  IN /\ r.pc = "status"
     /\ \E outcome \in {"rows", "error"} :
          requests' =
            [requests EXCEPT ![i] =
               IF outcome = "error"
               THEN Answered(Failed(r, "status"),
                             Reply(404, [error |-> "File not found"]))
               ELSE IF Len(found) # 1
               THEN Answered(r, Reply(404, [error |-> "File not found"]))
               ELSE Answered(r, Reply(200,
                      [filename |-> found[1].filename,
                       status |-> found[1].processing_status,
                       processedAt |-> found[1].processed_at,
                       errorMessage |-> found[1].error_message,
                       fileSize |-> found[1].file_size_bytes]))]
     /\ UNCHANGED <<call, store, now>>

Next ==
  \/ ReceivePost
  \/ ReceiveGet
  \/ ReceiveProcessPost
  \/ ReceiveProcessGet
  \/ \E i \in 1..Len(requests) : PostChat(i)
  \/ \E i \in 1..Len(requests) : RetrieveFloats(i)
  \/ \E i \in 1..Len(requests) : RetrieveProfiles(i)
  \/ \E i \in 1..Len(requests) : RetrieveMeasurements(i)
  \/ \E i \in 1..Len(requests) : StoreChatSession(i)
  \/ \E i \in 1..Len(requests) : GetChat(i)
  \/ \E i \in 1..Len(requests) : GetChatHistory(i)
  \/ \E i \in 1..Len(requests) : PostProcess(i)
  \/ \E i \in 1..Len(requests) : MarkProcessing(i)
  \/ \E i \in 1..Len(requests) : Synthesize(i)
  \/ \E i \in 1..Len(requests) : UpsertFloat(i)
  \/ \E i \in 1..Len(requests) : InsertProfile(i)
  \/ \E i \in 1..Len(requests) : InsertDepthMeasurements(i)
  \/ \E i \in 1..Len(requests) : InsertBGCMeasurements(i)
  \/ \E i \in 1..Len(requests) : MarkCompleted(i)
  \/ \E i \in 1..Len(requests) : MarkError(i)
  \/ \E i \in 1..Len(requests) : GetProcess(i)
  \/ \E i \in 1..Len(requests) : GetFileStatus(i)

Spec == Init /\ [][Next]_vars

(***************************************************************************)
(* Properties of the chat-session store                                    *)
(***************************************************************************)
\* request i is answered by this step, with the given status
AnsweredNow(i, method, status) ==
  /\ requests[i].route = "/api/chat"
  /\ requests[i].method = method
  /\ requests[i].pc # "answered"
  /\ requests'[i].pc = "answered"
  /\ requests'[i].reply[1].status = status

\* the step adds one row to the chat-session store, the row of request i
AddsRowOf(i) ==
  /\ Len(chat_sessions') = Len(chat_sessions) + 1
  /\ LET row == chat_sessions'[Len(chat_sessions')]
         result == requests'[i].reply[1].body
     IN /\ row.session_id = requests[i].sessionId[1]
        /\ row.user_query = requests[i].query[1]
        /\ row.ai_response = result.response
        /\ row.query_type = result.queryType
        /\ row.execution_time_ms = result.executionTime

\* C9: the chat-session store is an append-only log: no step changes or
\* removes a row, and every step in which a chat query is answered with its
\* result adds one row holding the session id, the query, the response, the
\* query type and the elapsed time of that query.
C9_EveryAnsweredQueryIsLogged ==
  [][/\ Len(chat_sessions') >= Len(chat_sessions)
     /\ \A k \in 1..Len(chat_sessions) : chat_sessions'[k] = chat_sessions[k]
     /\ \A i \in 1..Len(requests) :
          AnsweredNow(i, "POST", 200) => AddsRowOf(i)]_vars

\* the rows of session s in ascending creation order, rows created at one
\* instant in insertion order: the k-th of them
RowsOfSession(s) == {k \in 1..Len(chat_sessions) : chat_sessions[k].session_id = s}

EarlierRow(j, k) ==
  \/ chat_sessions[j].created_at < chat_sessions[k].created_at
  \/ chat_sessions[j].created_at = chat_sessions[k].created_at /\ j < k

NthRowOfSession(s, n) ==
  CHOOSE k \in RowsOfSession(s) :
    Cardinality({j \in RowsOfSession(s) : EarlierRow(j, k)}) = n - 1

\* the messages replay the stored rows of session s
ReplaysSession(messages, s) ==
  /\ Len(messages) = 2 * Cardinality(RowsOfSession(s))
  /\ \A n \in 1..Cardinality(RowsOfSession(s)) :
       LET row == chat_sessions[NthRowOfSession(s, n)]
       IN /\ messages[2 * n - 1].role = "user"
          /\ messages[2 * n - 1].content = row.user_query
          /\ messages[2 * n].role = "assistant"
          /\ messages[2 * n].content = row.ai_response

\* C10: every step that answers GET /api/chat?sessionId=s with success
\* answers the messages of exactly the rows stored for s at that moment, in
\* ascending creation order, each row giving its user message and then its
\* assistant message, and count is the number of messages.
C10_HistoryReplaysStoredRows ==
  [][\A i \in 1..Len(requests) :
       AnsweredNow(i, "GET", 200) =>
         LET body == requests'[i].reply[1].body
         IN /\ ReplaysSession(body.messages, requests[i].sessionId[1])
            /\ body.count = Len(body.messages)
            /\ body.success]_vars

(***************************************************************************)
(* Properties of the chat route's validation and error handling            *)
(***************************************************************************)
ChatPosts == {i \in 1..Len(requests) :
                requests[i].route = "/api/chat" /\ requests[i].method = "POST"}

\* the body of request i lacks query or sessionId: absent, or the empty
\* string
LacksField(i) ==
  \/ requests[i].query = Unset
  \/ requests[i].query = << <<>> >>
  \/ requests[i].sessionId = Unset
  \/ requests[i].sessionId = <<"">>

\* the step is the one that answers request i
StepAnswers(i) ==
  requests[i].pc # "answered" /\ requests'[i].pc = "answered"

\* C11: a POST /api/chat whose body lacks query or sessionId is answered
\* 400 before any processing: it never holds an analysis or retrieved data,
\* it never stands at a store call, and the step that answers it leaves
\* every table as it is; a POST with both fields is never answered 400.
C11_MissingFieldsRejectedFirst ==
  [][\A i \in ChatPosts :
       IF LacksField(i)
       THEN /\ requests'[i].pc \in {"received", "answered"}
            /\ requests'[i].analysis = Unset
            /\ requests'[i].data = <<>>
            /\ requests'[i].pc = "answered" =>
                 requests'[i].reply[1].status = 400
            /\ StepAnswers(i) => UNCHANGED store
       ELSE requests'[i].pc = "answered" =>
              requests'[i].reply[1].status # 400]_vars

\* an empty query was refused and a complete body was answered with success
C11_Witness ==
  /\ \E i \in ChatPosts :
       /\ requests[i].query = << <<>> >>
       /\ requests[i].sessionId \notin {Unset, <<"">>}
       /\ requests[i].pc = "answered"
       /\ requests[i].reply[1].status = 400
  /\ \E i \in ChatPosts :
       /\ ~ LacksField(i)
       /\ requests[i].pc = "answered"
       /\ requests[i].reply[1].status = 200

\* C12: every store error or thrown exception met while a request is served
\* is surfaced as a 500: a request during which a store call answered an
\* error or the client could not be created is never answered with
\* anything else, in particular not with success.
C12_ErrorsSurfaceAs500 ==
  \A i \in 1..Len(requests) :
    requests[i].pc = "answered" /\ requests[i].errors # <<>> =>
      requests[i].reply[1].status = 500

(***************************************************************************)
(* Properties of the process-netcdf route                                  *)
(***************************************************************************)
ProcessPosts ==
  {i \in 1..Len(requests) :
     requests[i].route = "/api/process-netcdf" /\ requests[i].method = "POST"}

ProcessGets ==
  {i \in 1..Len(requests) :
     requests[i].route = "/api/process-netcdf" /\ requests[i].method = "GET"}

\* the body of process request i lacks filename or filePath
LacksFileField(i) ==
  \/ requests[i].filename = Unset
  \/ requests[i].filename = << <<>> >>
  \/ requests[i].filePath = Unset
  \/ requests[i].filePath = <<"">>

\* a request refused by the validation is answered 400 and has made no
\* store call; the step that answers it writes nothing
RefusedBeforeProcessing(i) ==
  /\ requests'[i].pc \in {"received", "answered"}
  /\ requests'[i].profile = Unset
  /\ requests'[i].thrown = Unset
  /\ requests'[i].errors = <<>>
  /\ requests'[i].pc = "answered" => requests'[i].reply[1].status = 400
  /\ StepAnswers(i) => UNCHANGED store

\* success is answered, with the filename, only by the step that follows
\* the last store write of a run in which nothing was thrown
SuccessOnlyOnCompletion(i) ==
  StepAnswers(i) /\ requests'[i].reply[1].status = 200 =>
    /\ requests[i].pc = "completing"
    /\ requests[i].thrown = Unset
    /\ requests'[i].reply[1].body.filename = requests[i].filename[1]
    /\ \E k \in 1..Len(ocean_profiles) :
         ocean_profiles[k].id = requests[i].profileId[1]

\* C13 as stated: 400 on a missing field before any store write; whenever
\* processAndStore throws, 500 with the message of what was thrown as
\* detail; success with the filename only when processAndStore ran to
\* completion.
C13_AsStated ==
  [][\A i \in ProcessPosts :
       IF LacksFileField(i) THEN RefusedBeforeProcessing(i)
       ELSE /\ SuccessOnlyOnCompletion(i)
            /\ StepAnswers(i) /\ requests[i].thrown # Unset =>
                 /\ requests'[i].reply[1].status = 500
                 /\ requests'[i].reply[1].body.details =
                      requests[i].thrown[1].message]_vars

\* C13: 400 on a missing field before any store write; whenever
\* processAndStore throws, 500 whose detail is the message of the thrown
\* value when that is an Error and "Unknown error" when it is the error
\* object of a store call; success with the filename only when
\* processAndStore ran to completion.
C13_ProcessAnswers ==
  [][\A i \in ProcessPosts :
       IF LacksFileField(i) THEN RefusedBeforeProcessing(i)
       ELSE /\ SuccessOnlyOnCompletion(i)
            /\ requests'[i].pc = "answered" =>
                 requests'[i].reply[1].status \in {200, 500}
            /\ StepAnswers(i) /\ requests[i].thrown # Unset =>
                 /\ requests'[i].reply[1].status = 500
                 /\ requests'[i].reply[1].body.details =
                      IF requests[i].thrown[1].isError
                      THEN requests[i].thrown[1].message
                      ELSE <<"Unknown error">>]_vars

\* one file failed on a store error and was answered 500 "Unknown error",
\* another was processed to the end and answered with success
C13_Witness ==
  /\ \E i \in ProcessPosts :
       /\ requests[i].pc = "answered"
       /\ requests[i].thrown # Unset
       /\ ~ requests[i].thrown[1].isError
       /\ requests[i].reply[1].status = 500
       /\ requests[i].reply[1].body.details = <<"Unknown error">>
  /\ \E i \in ProcessPosts :
       /\ requests[i].pc = "answered"
       /\ requests[i].reply[1].status = 200

\* the file-metadata rows stored for filename f
FileRows(f) == {k \in 1..Len(netcdf_files) : netcdf_files[k].filename = f}

\* C14: every step that answers GET /api/process-netcdf?filename=f, other
\* than with a 500, answers the status record of f (status, processed time,
\* error message, size) when a file-metadata row for f exists, and answers
\* 404 exactly when no row for f exists.
C14_StatusOfStoredFile ==
  [][\A i \in ProcessGets :
       (/\ StepAnswers(i)
        /\ requests[i].filename \notin {Unset, << <<>> >>}
        /\ requests'[i].reply[1].status # 500) =>
         LET rows == FileRows(requests[i].filename[1])
             reply == requests'[i].reply[1]
         IN /\ reply.status = 404 <=> rows = {}
            /\ rows # {} =>
                 /\ reply.status = 200
                 /\ \E k \in rows :
                      /\ reply.body.filename = netcdf_files[k].filename
                      /\ reply.body.status = netcdf_files[k].processing_status
                      /\ reply.body.processedAt = netcdf_files[k].processed_at
                      /\ reply.body.errorMessage = netcdf_files[k].error_message
                      /\ reply.body.fileSize = netcdf_files[k].file_size_bytes]_vars

\* the float rows stored for a float id, before and after the step
FloatRows(floatId) ==
  {k \in 1..Len(argo_floats) : argo_floats[k].float_id = floatId}

FloatRowsAfter(floatId) ==
  {k \in 1..Len(argo_floats') : argo_floats'[k].float_id = floatId}

\* the step is the float upsert of request i, and the store did not break
\* down while serving it
UpsertsFloat(i) ==
  /\ requests[i].pc = "upsertFloat"
  /\ requests'[i].pc # "upsertFloat"
  /\ requests'[i].thrown # <<StoreError(<<"store error">>)>>

\* C15: the store never holds two float rows for one float id, and the
\* float upsert of every processAndStore call succeeds: it creates the row
\* of a new float id and, for a float id that is already stored, updates
\* that row to status active and to the last transmission of the new
\* profile, without failing and without adding a second row.
C15_FloatUpsertedById ==
  [][\A i \in ProcessPosts :
       UpsertsFloat(i) =>
         LET profile == requests[i].profile[1]
         IN /\ requests'[i].pc = "insertProfile"
            /\ Cardinality(FloatRowsAfter(profile.floatId)) = 1
            /\ \A k \in FloatRowsAfter(profile.floatId) :
                 /\ argo_floats'[k].status = "active"
                 /\ argo_floats'[k].last_transmission = profile.profileDate
            /\ \A k \in 1..Len(argo_floats) :
                 argo_floats[k].float_id # profile.floatId =>
                   argo_floats'[k] = argo_floats[k]]_vars

\* the profile rows with a given id
ProfileRows(id) == {k \in 1..Len(ocean_profiles) : ocean_profiles[k].id = id}

\* C16: a profile row, once stored, is never changed or removed; a step
\* adds at most one profile row, and only as the profile insert of one
\* processAndStore call, which keeps the id; no two calls keep the same
\* id; and a call that is answered with success has stored exactly one row
\* under its id, the row of the file's synthesized profile.
C16_ProfileCreatedOnceAndKept ==
  [][/\ Len(ocean_profiles') >= Len(ocean_profiles)
     /\ \A k \in 1..Len(ocean_profiles) : ocean_profiles'[k] = ocean_profiles[k]
     /\ Len(ocean_profiles') # Len(ocean_profiles) =>
          /\ Len(ocean_profiles') = Len(ocean_profiles) + 1
          /\ \E i \in ProcessPosts :
               /\ requests[i].pc = "insertProfile"
               /\ requests[i].profileId = Unset
               /\ requests'[i].profileId =
                    <<ocean_profiles'[Len(ocean_profiles')].id>>
     /\ \A i, j \in ProcessPosts :
          i # j /\ requests[i].profileId # Unset =>
            requests[i].profileId # requests[j].profileId
     /\ \A i \in ProcessPosts :
          requests[i].pc = "answered" /\ requests[i].reply[1].status = 200 =>
            /\ Cardinality(ProfileRows(requests[i].profileId[1])) = 1
            /\ \A k \in ProfileRows(requests[i].profileId[1]) :
                 /\ ocean_profiles[k].float_id = requests[i].profile[1].floatId
                 /\ ocean_profiles[k].cycle_number =
                      requests[i].profile[1].cycleNumber
                 /\ ocean_profiles[k].profile_date =
                      requests[i].profile[1].profileDate]_vars

\* a file was processed with success after sample profiles were stored,
\* while a chat request was served
C16_Witness ==
  /\ Len(ocean_profiles) > Len(SeedProfiles)
  /\ \E i \in ProcessPosts :
       /\ requests[i].pc = "answered"
       /\ requests[i].reply[1].status = 200
  /\ ChatPosts # {}

\* the depths of the rows of a measurement table that reference a profile,
\* in the order of the table
DepthsOfProfile(rows, profileId) ==
  LET of == SelectSeq(rows, LAMBDA row : row.profile_id = profileId)
  IN [k \in 1..Len(of) |-> of[k].depth_meters]

\* storeProfileData has returned for the call
ProfileStored(i) ==
  \/ requests[i].pc = "completing"
  \/ requests[i].pc = "answered" /\ requests[i].reply[1].status = 200

\* C17: every profile synthesized from a file holds 21 depth measurements
\* and 17 BGC measurements, at the two fixed depth lists; and once
\* storeProfileData has returned, exactly 21 depth rows and 17 BGC rows
\* reference the id of the new profile, again at the two lists.
C17_FixedMeasurementCounts ==
  \A i \in ProcessPosts :
    /\ requests[i].profile # Unset =>
         LET profile == requests[i].profile[1]
         IN /\ Len(profile.measurements) = 21
            /\ Len(profile.bgcData) = 17
            /\ [k \in 1..21 |-> profile.measurements[k].depth] =
                 MeasurementDepths
            /\ [k \in 1..17 |-> profile.bgcData[k].depth] = BGCDepths
    /\ ProfileStored(i) =>
         /\ DepthsOfProfile(depth_measurements, requests[i].profileId[1]) =
              MeasurementDepths
         /\ Len(DepthsOfProfile(depth_measurements,
                                requests[i].profileId[1])) = 21
         /\ DepthsOfProfile(bgc_measurements, requests[i].profileId[1]) =
              BGCDepths
         /\ Len(DepthsOfProfile(bgc_measurements,
                                requests[i].profileId[1])) = 17

\* two files were stored, so that the measurement tables hold the rows of
\* two new profiles
C17_Witness ==
  \E i, j \in ProcessPosts :
    /\ i # j
    /\ ProfileStored(i)
    /\ ProfileStored(j)
    /\ Len(depth_measurements) >= 42

(***************************************************************************)
(* searchSimilarContent, called twice on one table of embeddings           *)
(***************************************************************************)
MaxEmbeddings == 7

SearchQueries == {"temperature", "salinity", "ocean"}

LimitFields == {Unset, <<0>>, <<2>>, <<6>>}

\* created_at TIMESTAMP DEFAULT NOW(): the rows of one insert share their
\* instant, and later inserts carry later instants
EmbeddingTimes == 1..3

\* storeEmbeddings: the row of an embedding; the random vector is not
\* carried
EmbeddingRow(id, at) ==
  [id |-> id, content_type |-> "profile",
   content_text |-> IF id % 2 = 1 THEN "temperature" ELSE "salinity",
   created_at |-> at]

EmbeddingTables ==
  LET times == UNION {[1..n -> EmbeddingTimes] : n \in 0..MaxEmbeddings}
      inOrder == {t \in times : \A k \in 1..(Len(t) - 1) : t[k] <= t[k + 1]}
  IN {[k \in 1..Len(t) |-> EmbeddingRow(k, t[k])] : t \in inOrder}

\* limit = 5
DefaultLimit(limit) == IF limit = Unset THEN 5 ELSE limit[1]

\* a search that keeps the rows whose text is the query
searchSimilarContent_Matching(query, limit, answer) ==
  IF answer = "error" THEN <<>>
  ELSE Limit(OrderBy(SelectSeq(data_embeddings,
                               LAMBDA row : row.content_text = query),
                     "created_at", FALSE),
             DefaultLimit(limit))

\* VectorEmbeddingsGenerator.searchSimilarContent on the store's answer to
\* from("data_embeddings").select("*").order("created_at", descending)
\* .limit(limit): the rows, or [] when the store answers an error
searchSimilarContent(query, limit, answer) ==
  IF answer = "error" THEN <<>>
  ELSE Limit(OrderBy(data_embeddings, "created_at", FALSE),
             DefaultLimit(limit))

InitSearch ==
  /\ argo_floats = <<>>
  /\ ocean_profiles = <<>>
  /\ depth_measurements = <<>>
  /\ bgc_measurements = <<>>
  /\ netcdf_files = <<>>
  /\ chat_sessions = <<>>
  /\ data_embeddings \in EmbeddingTables
  /\ requests = <<>>
  /\ now = 0
  /\ \E first \in SearchQueries, second \in SearchQueries,
        limit \in LimitFields :
       call = [op |-> "searchSimilarContent", pc |-> "start",
               queries |-> <<first, second>>, limit |-> limit,
               results |-> <<>>]

\* one call of searchSimilarContent, with the next of the two queries.  The
\* client may fail to be created (initializeSupabase), and then the call
\* throws.
SearchSimilarContent ==
  /\ call.op = "searchSimilarContent"
  /\ Len(call.results) < Len(call.queries)
  /\ \E answer \in {"rows", "error", "no client"} :
       LET query == call.queries[Len(call.results) + 1]
           result == [query |-> query, answer |-> answer,
                      threw |-> answer = "no client",
                      rows |-> IF answer = "no client" THEN <<>>
                               ELSE searchSimilarContent(query, call.limit,
                                                         answer)]
       IN call' = [call EXCEPT !.results = Append(call.results, result),
                               !.pc = IF Len(call.results) + 1 =
                                         Len(call.queries)
                                      THEN "done" ELSE "searching"]
  /\ UNCHANGED server

NextSearch == SearchSimilarContent

SpecSearch == InitSearch /\ [][NextSearch]_vars

\* rows are the newest rows of the table, newest first, at most n of them
NewestFirst(rows, n) ==
  /\ Len(rows) = IF Len(data_embeddings) <= n THEN Len(data_embeddings) ELSE n
  /\ \A k \in 1..Len(rows) :
       \E j \in 1..Len(data_embeddings) : data_embeddings[j] = rows[k]
  /\ \A k, l \in 1..Len(rows) : k # l => rows[k].id # rows[l].id
  /\ \A k \in 1..(Len(rows) - 1) : rows[k].created_at >= rows[k + 1].created_at
  /\ \A j \in 1..Len(data_embeddings) :
       (\A k \in 1..Len(rows) : rows[k] # data_embeddings[j]) =>
         \A k \in 1..Len(rows) : rows[k].created_at >= data_embeddings[j].created_at

Searched == call.op = "searchSimilarContent" /\ call.pc = "done"

QueryTypes ==
  {"temperature_query", "salinity_query", "bgc_query", "float_location_query",
   "comparison_query", "general_query"}

MaxLabelWords == 2

\* the queries whose label is checked: up to MaxLabelWords keywords
LabelledQueries == Concatenations(ClassifierWords, MaxLabelWords)

\* C19: every query is classified into one of the six labels; a step never
\* changes a stored chat-session row, and every row it adds is the row of a
\* processQuery call that returns in that step, labelled with one of the
\* six labels, the queryType the call returns to its caller.
C19_LabelWrittenIsLabelReturned ==
  [][/\ requests = <<>> =>
          \A q \in LabelledQueries : analyzeQuery(q).type \in QueryTypes
     /\ \A i \in ChatPosts :
          requests[i].analysis # Unset =>
            requests[i].analysis[1].type \in QueryTypes
     /\ Len(chat_sessions') >= Len(chat_sessions)
     /\ \A k \in 1..Len(chat_sessions) : chat_sessions'[k] = chat_sessions[k]
     /\ \A k \in (Len(chat_sessions) + 1)..Len(chat_sessions') :
          /\ chat_sessions'[k].query_type \in QueryTypes
          /\ \E i \in ChatPosts :
               /\ AnsweredNow(i, "POST", 200)
               /\ chat_sessions'[k].session_id = requests[i].sessionId[1]
               /\ chat_sessions'[k].user_query = requests[i].query[1]
               /\ chat_sessions'[k].query_type =
                    requests'[i].reply[1].body.queryType
     /\ \A i \in ChatPosts :
          AnsweredNow(i, "POST", 200) =>
            requests'[i].reply[1].body.queryType \in QueryTypes]_vars

\* a query was answered and logged next to the sample rows, whose labels
\* are not among the six
C19_Witness ==
  /\ Len(chat_sessions) > Len(SeedChatSessions)
  /\ chat_sessions[1].query_type \notin QueryTypes
  /\ chat_sessions[Len(chat_sessions)].query_type = "general_query"
  /\ \E i \in ChatPosts :
       /\ requests[i].pc = "answered"
       /\ requests[i].reply[1].status = 200
       /\ requests[i].reply[1].body.queryType = "general_query"
       /\ requests[i].errors = <<>>

\* the rows of the four stores that a completed run has written for the
\* profile of request i
AllStored(i) ==
  LET r == requests[i]
  IN /\ r.profile # Unset
     /\ r.profileId # Unset
     /\ \E k \in 1..Len(argo_floats) :
          argo_floats[k].float_id = r.profile[1].floatId
     /\ ProfileRows(r.profileId[1]) # {}
     /\ DepthsOfProfile(depth_measurements, r.profileId[1]) = MeasurementDepths
     /\ DepthsOfProfile(bgc_measurements, r.profileId[1]) = BGCDepths

\* the statuses request i has passed to updateFileStatus, in order
StatusesWritten(i) ==
  [k \in 1..Len(requests[i].statusWrites) |-> requests[i].statusWrites[k].status]

\* the order of the status writes of processAndStore, and what has happened
\* when each is made; the text written with "error" is the message of what
\* was thrown (always), or the text the catch block computes from it
StatusProtocol(i, always) ==
  LET r == requests[i]
      writes == r.statusWrites
  IN /\ StatusesWritten(i) \in {<<>>, <<"processing">>,
                                <<"processing", "completed">>,
                                <<"processing", "error">>}
     /\ r.profile # Unset \/ r.thrown # Unset => writes # <<>>
     /\ Len(writes) = 1 /\ r.pc = "synthesize" =>
          r.profile = Unset /\ r.thrown = Unset
     /\ Len(writes) = 2 /\ writes[2].status = "completed" =>
          /\ AllStored(i)
          /\ r.thrown = Unset
          /\ r.pc = "answered" /\ r.reply[1].status = 200
     /\ Len(writes) = 2 /\ writes[2].status = "error" =>
          /\ r.thrown # Unset
          /\ writes[2].errorMessage =
               <<IF always THEN r.thrown[1].message
                 ELSE ErrorDetail(r.thrown[1])>>
          /\ r.pc = "answered" /\ r.reply[1].status = 500
     /\ r.thrown # Unset /\ r.pc = "answered" =>
          Len(writes) = 2 /\ writes[2].status = "error"
     /\ r.pc = "answered" /\ r.reply[1].status = 200 =>
          Len(writes) = 2 /\ writes[2].status = "completed"

\* a step changes rows of netcdf_files only as the status write of a
\* processAndStore call: rows of the call's filename, which take the status
\* and the message of the write
StatusRowsFollowWrites ==
  /\ Len(netcdf_files') = Len(netcdf_files)
  /\ \A k \in 1..Len(netcdf_files) :
       netcdf_files'[k] # netcdf_files[k] =>
         \E i \in ProcessPosts :
           LET writes == requests'[i].statusWrites
           IN /\ Len(writes) = Len(requests[i].statusWrites) + 1
              /\ netcdf_files'[k].filename = requests[i].filename[1]
              /\ netcdf_files'[k].processing_status = writes[Len(writes)].status
              /\ writes[Len(writes)].status = "error" =>
                   netcdf_files'[k].error_message =
                     writes[Len(writes)].errorMessage
  /\ \A k \in 1..Len(netcdf_files') :
       netcdf_files'[k].processing_status \in {"processing", "completed", "error"}

\* C20 as stated: the status is written "processing" before the profile is
\* synthesized, "completed" only after the four store writes succeeded, and
\* "error" with the message of what was thrown whenever a step throws,
\* after which POST answers 500; no other status is written.
C20_AsStated ==
  [][StatusRowsFollowWrites /\ \A i \in ProcessPosts : StatusProtocol(i, TRUE)]_vars

\* C20: the status is written "processing" before the profile is
\* synthesized, "completed" only after the float upsert, the profile insert,
\* the depth insert and the BGC insert succeeded, and "error" whenever the
\* synthesis or a store write throws, after which POST answers 500; the
\* text written with "error" is the message of a thrown Error and
\* "Unknown error" for the error object of a failed store write; no other
\* status is written, and a row changes only by such a write.
C20_StatusProtocol ==
  [][StatusRowsFollowWrites /\ \A i \in ProcessPosts : StatusProtocol(i, FALSE)]_vars

\* one file ran to completion and another, whose float is stored, was
\* refused by the store and marked with an error
C20_Witness ==
  \E i, j \in ProcessPosts :
    /\ StatusesWritten(i) = <<"processing", "completed">>
    /\ StatusesWritten(j) = <<"processing", "error">>
    /\ ~ requests[j].thrown[1].isError

\* the store writes of storeProfileData, in order
StoreWrites == <<"upsertFloat", "insertProfile", "insertDepths", "insertBGC">>

\* the writes of storeProfileData that failed for request i
WritesFailed(i) ==
  SelectSeq(requests[i].errors,
            LAMBDA what : \E k \in 1..Len(StoreWrites) : StoreWrites[k] = what)

\* the stored float rows of the float of request i
FloatRowsOf(i) ==
  {k \in 1..Len(argo_floats) :
     argo_floats[k].float_id = requests[i].profile[1].floatId}

\* how far storeProfileData has come for request i: the number of its
\* writes that are made, read from the rows in the store
WritesMade(i) ==
  LET r == requests[i]
  IN IF r.profileId = Unset
     THEN IF r.pc = "insertProfile" \/ WritesFailed(i) = <<"insertProfile">>
          THEN 1 ELSE 0
     ELSE IF DepthsOfProfile(depth_measurements, r.profileId[1]) = <<>> THEN 2
     ELSE IF DepthsOfProfile(bgc_measurements, r.profileId[1]) = <<>> THEN 3
     ELSE 4

\* a table keeps the rows it has
RowsKept(old, new) ==
  /\ Len(new) >= Len(old)
  /\ \A k \in 1..Len(old) : new[k] = old[k]

\* C21: storeProfileData makes its four writes in the order float, profile,
\* depth measurements, BGC measurements; at most one of them fails, the
\* failed write is the one after the writes made and nothing is written
\* after it; the rows written before it stay in the store; and the error is
\* thrown on, so that the request is answered 500.
C21_WritesInOrderNoRollback ==
  [][/\ RowsKept(argo_floats, argo_floats')
     /\ RowsKept(ocean_profiles, ocean_profiles')
     /\ RowsKept(depth_measurements, depth_measurements')
     /\ RowsKept(bgc_measurements, bgc_measurements')
     /\ \A i \in ProcessPosts :
          requests[i].profile # Unset =>
            LET r == requests[i]
                made == WritesMade(i)
            IN /\ Len(WritesFailed(i)) <= 1
               /\ made >= 1 => FloatRowsOf(i) # {}
               /\ made >= 2 => Cardinality(ProfileRows(r.profileId[1])) = 1
               /\ made >= 3 =>
                    DepthsOfProfile(depth_measurements, r.profileId[1]) =
                      MeasurementDepths
               /\ made = 4 =>
                    DepthsOfProfile(bgc_measurements, r.profileId[1]) =
                      BGCDepths
               /\ made < 4 /\ r.profileId # Unset =>
                    DepthsOfProfile(bgc_measurements, r.profileId[1]) = <<>>
               /\ WritesFailed(i) # <<>> =>
                    /\ WritesFailed(i) = <<StoreWrites[made + 1]>>
                    /\ r.thrown # Unset
                    /\ r.pc \in {"failing", "answered"}
                    /\ r.pc = "answered" => r.reply[1].status = 500
                    /\ WritesMade(i)' = made
               /\ WritesFailed(i) = <<>> /\ r.thrown = Unset =>
                    r.pc = IF made = 4 THEN r.pc ELSE StoreWrites[made + 1]]_vars

\* the depth insert of a request failed after its float and its profile
\* were written, the request was answered 500, and both rows are still
\* stored
C21_Witness ==
  \E i \in ProcessPosts :
    /\ requests[i].profile # Unset
    /\ WritesFailed(i) = <<"insertDepths">>
    /\ requests[i].pc = "answered"
    /\ requests[i].reply[1].status = 500
    /\ FloatRowsOf(i) # {}
    /\ ProfileRows(requests[i].profileId[1]) # {}

\* C22: in every reachable state each depth-measurement row and each BGC
\* row references a stored profile row, and each profile row references a
\* stored float row.
C22_ReferencesExist ==
  /\ \A k \in 1..Len(depth_measurements) :
       ProfileRows(depth_measurements[k].profile_id) # {}
  /\ \A k \in 1..Len(bgc_measurements) :
       ProfileRows(bgc_measurements[k].profile_id) # {}
  /\ \A k \in 1..Len(ocean_profiles) :
       \E f \in 1..Len(argo_floats) :
         argo_floats[f].float_id = ocean_profiles[k].float_id

\* a request failed midway, after its profile was written and before its
\* measurements were, while another request stored a whole profile, next to
\* nothing else or to the sample data
C22_Witness ==
  \E i, j \in ProcessPosts :
    /\ i # j
    /\ requests[i].profile # Unset
    /\ WritesFailed(i) = <<"insertDepths">>
    /\ requests[i].pc = "answered"
    /\ ProfileStored(j)

(***************************************************************************)
(* The routes on a store in which a file is registered for processing      *)
(***************************************************************************)
\* a row of netcdf_files as the schema's defaults leave it:
\* processing_status 'pending', nothing processed yet
RegisteredFile(filename) ==
  [filename |-> filename, file_size_bytes |-> Unset,
   processing_status |-> "pending", processed_at |-> Unset,
   error_message |-> Unset]

InitRegistered ==
  /\ call = NoCall
  /\ argo_floats = <<>>
  /\ ocean_profiles = <<>>
  /\ depth_measurements = <<>>
  /\ bgc_measurements = <<>>
  /\ netcdf_files \in {<<RegisteredFile(filename)>> : filename \in ProcessFilenames}
  /\ chat_sessions = <<>>
  /\ data_embeddings = <<>>
  /\ requests = <<>>
  /\ now = 0

SpecRegistered == InitRegistered /\ [][Next]_vars

\* C24: a file whose processing status is "completed" has no stored error
\* message.
C24_CompletedHasNoErrorMessage ==
  \A k \in 1..Len(netcdf_files) :
    netcdf_files[k].processing_status = "completed" =>
      netcdf_files[k].error_message = Unset

(***************************************************************************)
(* The trajectory player (TrajectoryMap).  A state update, the render that *)
(* follows it and the effects of that render are one step: React commits   *)
(* them before it handles the next event.                                  *)
(***************************************************************************)
MaxLength == 3

MaxEvents == 5

\* trajectory.length of the trajectories given to the component
TrajectoryLengths == 1..MaxLength

\* the speed slider: values 100 .. 1900 in steps of 100; three of them
SpeedSliderValues == {100, 1000, 1900}

NoTimer == 0

TimerIds == 1..3

\* an interval timer with the values its callback closes over
Interval(id, length, speed) == [id |-> id, length |-> length, speed |-> speed]

\* the id setInterval returns: not the id of the timer before
NextTimerId(lastId) == (lastId % 3) + 1

\* an effect that sets its timer and returns no cleanup
AutoPlayEffect_NoCleanup(c) ==
  IF <<c.isPlaying, c.playbackSpeed, c.length>> = c.deps THEN c
  ELSE IF ~ c.isPlaying
       THEN [c EXCEPT !.deps = <<c.isPlaying, c.playbackSpeed, c.length>>]
       ELSE [c EXCEPT
               !.deps = <<c.isPlaying, c.playbackSpeed, c.length>>,
               !.timers = @ \cup {Interval(NextTimerId(c.lastTimer), c.length,
                                           c.playbackSpeed)},
               !.lastTimer = NextTimerId(c.lastTimer)]

\* useEffect(..., [isPlaying, playbackSpeed, trajectory.length]) after a
\* render of the component in state c: when a dependency has changed, the
\* cleanup of the effect before runs (clearInterval) and then the effect,
\* which sets an interval when isPlaying
AutoPlayEffect(c) ==
  IF <<c.isPlaying, c.playbackSpeed, c.length>> = c.deps THEN c
  ELSE LET cleared == {t \in c.timers : t.id # c.cleanup}
       IN IF ~ c.isPlaying
          THEN [c EXCEPT
                  !.deps = <<c.isPlaying, c.playbackSpeed, c.length>>,
                  !.timers = cleared,
                  !.cleanup = NoTimer]
          ELSE [c EXCEPT
                  !.deps = <<c.isPlaying, c.playbackSpeed, c.length>>,
                  !.timers = cleared \cup
                             {Interval(NextTimerId(c.lastTimer), c.length,
                                       c.playbackSpeed)},
                  !.cleanup = NextTimerId(c.lastTimer),
                  !.lastTimer = NextTimerId(c.lastTimer)]

\* the component after its first render: useState(0), useState(false),
\* useState(1000); the effect has run and has set no timer
Mounted(length) ==
  [op |-> "TrajectoryMap", pc |-> "mounted", length |-> length,
   currentIndex |-> 0, isPlaying |-> FALSE, playbackSpeed |-> 1000,
   deps |-> <<FALSE, 1000, length>>, timers |-> {}, cleanup |-> NoTimer,
   lastTimer |-> NoTimer, events |-> 0]

InitPlayer ==
  /\ NoServer
  /\ \E length \in TrajectoryLengths : call = Mounted(length)

PlayerMounted == call.op = "TrajectoryMap" /\ call.pc = "mounted"

\* an event of the user or of the parent component is handled
UserEvent(c) ==
  /\ call.events < MaxEvents
  /\ call' = AutoPlayEffect([c EXCEPT !.events = @ + 1])
  /\ UNCHANGED server

\* handlePlay
HandlePlay ==
  /\ PlayerMounted
  /\ UserEvent([call EXCEPT
                  !.currentIndex = IF call.currentIndex >= call.length - 1
                                   THEN 0 ELSE @,
                  !.isPlaying = ~ call.isPlaying])

\* handleReset
HandleReset ==
  /\ PlayerMounted
  /\ UserEvent([call EXCEPT !.currentIndex = 0, !.isPlaying = FALSE])

\* the position slider: onValueChange, value in 0 .. trajectory.length - 1
MoveSlider ==
  /\ PlayerMounted
  /\ \E value \in 0..(call.length - 1) :
       UserEvent([call EXCEPT !.currentIndex = value])

\* the speed slider: setPlaybackSpeed(2000 - value)
ChangeSpeed ==
  /\ PlayerMounted
  /\ \E value \in SpeedSliderValues :
       /\ 2000 - value # call.playbackSpeed
       /\ UserEvent([call EXCEPT !.playbackSpeed = 2000 - value])

\* the parent renders the component with another trajectory
ChangeTrajectory ==
  /\ PlayerMounted
  /\ \E length \in TrajectoryLengths :
       /\ length # call.length
       /\ UserEvent([call EXCEPT !.length = length])

\* a tick that advances the index whatever the position
TimerTick_Unguarded ==
  /\ PlayerMounted
  /\ \E t \in call.timers :
       call' = AutoPlayEffect([call EXCEPT !.currentIndex = @ + 1])
  /\ UNCHANGED server

\* a tick that starts over at the first position after the last
TimerTick_Repeats ==
  /\ PlayerMounted
  /\ \E t \in call.timers :
       call' = AutoPlayEffect(
                 IF call.currentIndex >= t.length - 1
                 THEN [call EXCEPT !.currentIndex = 0]
                 ELSE [call EXCEPT !.currentIndex = @ + 1])
  /\ UNCHANGED server

\* an interval fires: setCurrentIndex((prev) => ...), with the
\* trajectory.length the effect that set the interval has seen
TimerTick ==
  /\ PlayerMounted
  /\ \E t \in call.timers :
       call' = AutoPlayEffect(
                 IF call.currentIndex >= t.length - 1
                 THEN [call EXCEPT !.isPlaying = FALSE]
                 ELSE [call EXCEPT !.currentIndex = @ + 1])
  /\ UNCHANGED server

\* the component is torn down: the cleanup of the last effect runs
Unmount ==
  /\ PlayerMounted
  /\ call' = [call EXCEPT !.pc = "unmounted",
                          !.timers = {t \in @ : t.id # call.cleanup},
                          !.cleanup = NoTimer]
  /\ UNCHANGED server

NextPlayer ==
  \/ HandlePlay
  \/ HandleReset
  \/ MoveSlider
  \/ ChangeSpeed
  \/ ChangeTrajectory
  \/ TimerTick
  \/ Unmount

SpecPlayer == InitPlayer /\ [][NextPlayer]_vars

\* an interval that is set fires in the end
SpecPlayerFair == SpecPlayer /\ WF_vars(TimerTick)

Player == call.op = "TrajectoryMap"

\* the ids of the timers that are set
ActiveTimers(c) == {t.id : t \in c.timers}

\* C23: at most one playback timer is set at any time, and only while the
\* component is mounted and isPlaying is true; the timer that is set is
\* cancelled when the component is torn down and whenever isPlaying, the
\* playback speed or the trajectory length changes.
C23_OneTimerWhilePlaying ==
  [][Player =>
       /\ Cardinality(call.timers) <= 1
       /\ call.timers # {} => call.isPlaying /\ call.pc = "mounted"
       /\ call'.pc = "unmounted" => call'.timers = {}
       /\ (\/ call'.isPlaying # call.isPlaying
           \/ call'.playbackSpeed # call.playbackSpeed
           \/ call'.length # call.length) =>
            ActiveTimers(call) \cap ActiveTimers(call') = {}]_vars

\* playback runs at a changed speed on the second timer that was set, the
\* first one being cancelled
C23_Witness ==
  /\ Player
  /\ call.pc = "mounted"
  /\ call.isPlaying
  /\ call.playbackSpeed # 1000
  /\ call.lastTimer = 2
  /\ ActiveTimers(call) = {2}

\* the index is a position of the trajectory
IndexInRange(c) == 0 <= c.currentIndex /\ c.currentIndex <= c.length - 1

\* C28: for a non-empty trajectory the index starts within
\* 0 .. trajectory.length - 1, and every play, pause, reset, slider-move and
\* timer-tick event (every step that leaves the trajectory as it is) keeps
\* it there.
C28_IndexStaysInRange ==
  [][Player =>
       /\ call.events = 0 /\ call.lastTimer = NoTimer => IndexInRange(call)
       /\ call'.length = call.length /\ IndexInRange(call) =>
            IndexInRange(call')]_vars

\* playback has run to the last of three positions and has stopped there
C28_Witness ==
  /\ Player
  /\ call.length = 3
  /\ call.currentIndex = 2
  /\ ~ call.isPlaying
  /\ call.lastTimer # NoTimer
  /\ call.timers = {}
  /\ call.events = 1

\* the step is a timer tick: no event of the user, no teardown
IsTick == call'.events = call.events /\ call'.pc = call.pc /\ call' # call

\* C29: while playback runs, each timer tick advances the index by exactly
\* one as long as the index is before the last position; the tick that
\* finds the index at the last position leaves it there, sets isPlaying to
\* false and leaves no timer set, so that the index no longer changes.  And
\* playback that is not paused, reset or otherwise disturbed, on a
\* component that stays mounted, leads to isPlaying false with the index at
\* the last position.
C29_PlaybackStopsAtEnd ==
  /\ [][Player /\ IsTick =>
          /\ call.isPlaying
          /\ IF call.currentIndex < call.length - 1
             THEN /\ call'.currentIndex = call.currentIndex + 1
                  /\ call'.isPlaying
             ELSE /\ call'.currentIndex = call.currentIndex
                  /\ ~ call'.isPlaying
                  /\ call'.timers = {}]_vars
  /\ (Player /\ call.isPlaying /\ call.events = MaxEvents
        /\ IndexInRange(call))
       ~> \/ ~ call.isPlaying /\ call.currentIndex = call.length - 1
                              /\ call.timers = {}
          \/ call.pc = "unmounted"

\* playback was started at the first of three positions, after the user's
\* last event, and has advanced by one tick
C29_Witness ==
  /\ Player
  /\ call.pc = "mounted"
  /\ call.events = MaxEvents
  /\ call.isPlaying
  /\ call.length = 3
  /\ call.currentIndex = 1

(***************************************************************************)
(* The chat widget (ChatInterface).  The requests of the widget are in     *)
(* flight between the step that sends them and the step in which they      *)
(* settle; the server's answers are drawn here.                            *)
(***************************************************************************)
MaxSends == 2

MaxWidgetEvents == 4

\* String.prototype.trim
RECURSIVE trim(_)
trim(s) ==
  IF s = <<>> THEN s
  ELSE IF s[1] \in Whitespace THEN trim(Tail(s))
  ELSE IF s[Len(s)] \in Whitespace THEN trim(SubSeq(s, 1, Len(s) - 1))
  ELSE s

\* a test that takes only the empty input for blank
InputIsBlank_OnlyEmpty(input) == input = <<>>

\* !input.trim()
InputIsBlank(input) == trim(input) = <<>>

\* what the user types into the input
WidgetInputs == {<<>>, <<" ">>, <<" ", " ">>, <<"h", "i">>, <<" ", "v", "s">>}

WidgetSessions == {"s1", "s2"}

Apology ==
  <<"Sorry, I encountered an error processing your request. Please try again.">>

\* a message of the list; n is the number of the send that appended it, 0
\* for a message of the loaded history
WidgetMessage(role, content, n) == [role |-> role, content |-> content, of |-> n]

\* the message lists GET /api/chat answers with
WidgetHistories ==
  {<<>>,
   <<WidgetMessage("user", <<"o", "l", "d">>, 0),
     WidgetMessage("assistant", <<"old reply">>, 0)>>}

\* the component after its first render: no messages, empty input, not
\* loading; the effect has called loadChatHistory
WidgetMounted(sessionId) ==
  [op |-> "ChatInterface", pc |-> "mounted", sessionId |-> sessionId,
   messages |-> <<>>, input |-> <<>>, isLoading |-> FALSE,
   loads |-> <<sessionId>>, send |-> Unset, sends |-> 0, events |-> 0,
   event |-> "mount"]

InitWidget ==
  /\ NoServer
  /\ \E sessionId \in WidgetSessions : call = WidgetMounted(sessionId)

Widget == call.op = "ChatInterface"

\* an event of the user or of the parent is handled
WidgetEvent(name) ==
  [call EXCEPT !.events = @ + 1, !.event = name]

\* onChange of the input, which is disabled while isLoading
TypeInput ==
  /\ Widget
  /\ call.events < MaxWidgetEvents
  /\ ~ call.isLoading
  /\ \E input \in WidgetInputs :
       /\ input # call.input
       /\ call' = [WidgetEvent("type") EXCEPT !.input = input]
  /\ UNCHANGED server

\* sendMessage up to its fetch
SendMessage ==
  /\ Widget
  /\ call.events < MaxWidgetEvents
  /\ call.sends < MaxSends
  /\ call' =
       IF InputIsBlank(call.input) \/ call.isLoading
       THEN WidgetEvent("send")
       ELSE [WidgetEvent("send") EXCEPT
               !.messages = Append(@, WidgetMessage("user", call.input,
                                                    call.sends + 1)),
               !.input = <<>>,
               !.isLoading = TRUE,
               !.sends = @ + 1,
               !.send = <<[query |-> call.input,
                           sessionId |-> call.sessionId]>>]
  /\ UNCHANGED server

\* sendMessage after its fetch: the response is a success, or it is not, or
\* the request or the reading of its body fails
SettleSend ==
  /\ Widget
  /\ call.send # Unset
  /\ \E outcome \in {"success", "not success", "failed"} :
       call' = [call EXCEPT
                  !.messages =
                    Append(@, WidgetMessage("assistant",
                                 IF outcome = "success" THEN <<"reply">>
                                 ELSE Apology,
                                 call.sends)),
                  !.isLoading = FALSE,
                  !.send = Unset,
                  !.event = outcome]
  /\ UNCHANGED server

\* loadChatHistory after its fetch, for any of the loads in flight
SettleHistory ==
  /\ Widget
  /\ \E k \in 1..Len(call.loads) :
       \E outcome \in {"success", "not success", "failed"},
          history \in WidgetHistories :
         /\ outcome # "success" => history = <<>>
         /\ call' = [call EXCEPT
                       !.messages = IF outcome = "success" THEN history
                                    ELSE @,
                       !.loads = [j \in 1..(Len(@) - 1) |->
                                    IF j < k THEN @[j] ELSE @[j + 1]],
                       !.event = "history"]
  /\ UNCHANGED server

\* the parent renders the widget with another session id: the effect calls
\* loadChatHistory
ChangeSession ==
  /\ Widget
  /\ call.events < MaxWidgetEvents
  /\ \E sessionId \in WidgetSessions :
       /\ sessionId # call.sessionId
       /\ call' = [WidgetEvent("session") EXCEPT
                     !.sessionId = sessionId,
                     !.loads = Append(@, sessionId)]
  /\ UNCHANGED server

NextWidget ==
  \/ TypeInput
  \/ SendMessage
  \/ SettleSend
  \/ SettleHistory
  \/ ChangeSession

SpecWidget == InitWidget /\ [][NextWidget]_vars

\* a request that was sent settles in the end
SpecWidgetFair == SpecWidget /\ WF_vars(SettleSend)

\* C25: a message that sendMessage has appended to the list stays in the
\* list in every later step.
C25_SentMessagesStay ==
  [][Widget =>
       \A k \in 1..Len(call.messages) :
         call.messages[k].of >= 1 =>
           \E j \in 1..Len(call'.messages) :
             call'.messages[j] = call.messages[k]]_vars

\* the input holds nothing but white space
OnlyWhitespace(input) == \A k \in 1..Len(input) : input[k] \in Whitespace

\* the step is a call of sendMessage
IsSend == call'.events = call.events + 1 /\ call'.event = "send"

\* the step settles the request of a send
IsSettled == call.send # Unset /\ call'.send = Unset

\* C26: a call of sendMessage while isLoading is true or the input is blank
\* changes nothing; every other call appends one user message, with the
\* input as content, and sets isLoading; the step in which the request
\* settles appends exactly one assistant message, the reply when the
\* response is a success and the apology otherwise, and sets isLoading to
\* false; and isLoading, once true, becomes false again.
C26_SendAppendsAndSettles ==
  /\ [][Widget =>
          /\ IsSend /\ (call.isLoading \/ OnlyWhitespace(call.input)) =>
               /\ call'.messages = call.messages
               /\ call'.input = call.input
               /\ call'.isLoading = call.isLoading
               /\ call'.send = call.send
          /\ IsSend /\ ~ (call.isLoading \/ OnlyWhitespace(call.input)) =>
               /\ Len(call'.messages) = Len(call.messages) + 1
               /\ SubSeq(call'.messages, 1, Len(call.messages)) = call.messages
               /\ call'.messages[Len(call'.messages)].role = "user"
               /\ call'.messages[Len(call'.messages)].content = call.input
               /\ call'.isLoading
               /\ call'.send # Unset
          /\ IsSettled =>
               /\ Len(call'.messages) = Len(call.messages) + 1
               /\ SubSeq(call'.messages, 1, Len(call.messages)) = call.messages
               /\ call'.messages[Len(call'.messages)].role = "assistant"
               /\ call'.messages[Len(call'.messages)].content =
                    (IF call'.event = "success" THEN <<"reply">> ELSE Apology)
               /\ ~ call'.isLoading
          /\ call.isLoading <=> call.send # Unset]_vars
  /\ (Widget /\ call.isLoading) ~> (Widget /\ ~ call.isLoading)

\* a second message was sent after the first request was answered with the
\* apology, and its request has settled with a reply
C26_Witness ==
  /\ Widget
  /\ call.sends = 2
  /\ ~ call.isLoading
  /\ Len(call.messages) = 4
  /\ call.messages[2].content = Apology
  /\ call.messages[4].content = <<"reply">>

(***************************************************************************)
(* The routes while a measurement query that names no float is served      *)
(***************************************************************************)
\* temperature, salinity and BGC queries without a float id
NoFloatQueries ==
  {kw_temperature, kw_salt, kw_ph,
   kw_oxygen \o <<" ", "5", "0", "0", "m">>,
   <<"T", "e", "m", "p", " ", "5", "9", "0", "6", "4", "6">>}

InitNoFloat ==
  /\ call = NoCall
  /\ \/ /\ argo_floats = <<>>
        /\ ocean_profiles = <<>>
        /\ depth_measurements = <<>>
        /\ bgc_measurements = <<>>
        /\ netcdf_files = <<>>
        /\ chat_sessions = <<>>
     \/ /\ argo_floats = SeedFloats
        /\ ocean_profiles = SeedProfiles
        /\ depth_measurements = SeedMeasurements
        /\ bgc_measurements = SeedBGCMeasurements
        /\ netcdf_files = SeedFiles
        /\ chat_sessions = SeedChatSessions
  /\ data_embeddings = <<>>
  /\ \E query \in NoFloatQueries, sessionId \in SessionIds :
       requests = <<Request("POST", <<query>>, <<sessionId>>)>>
  /\ now = Len(chat_sessions)

SpecNoFloat == InitNoFloat /\ [][Next]_vars

\* the "no data" message of a category
NoDataMessage(type) ==
  CASE type = "temperature_query" -> TemperatureNoData
    [] type = "salinity_query" -> SalinityNoData
    [] type = "bgc_query" -> BGCNoData

\* C27: a temperature, salinity or BGC query that names no float id is
\* served without a store read: it never stands at a read, it collects no
\* data and no read error, and its answer is the "no data" message of its
\* category with no data used, whatever the store contains.
C27_NoFloatNoRead ==
  \A i \in ChatPosts :
    (/\ requests[i].analysis # Unset
     /\ requests[i].analysis[1].type \in
          {"temperature_query", "salinity_query", "bgc_query"}
     /\ requests[i].analysis[1].parameters.floatId = Unset)
    => /\ requests[i].pc \in {"store", "answered"}
       /\ requests[i].data = <<>>
       /\ \A k \in 1..Len(requests[i].errors) : requests[i].errors[k] = "store"
       /\ requests[i].pc = "answered" =>
            /\ requests[i].reply[1].status = 200
            /\ requests[i].reply[1].body.response =
                 <<NoDataMessage(requests[i].analysis[1].type)>>
            /\ requests[i].reply[1].body.dataUsed = 0

\* a BGC query without a float id was answered on the sample data, after a
\* file was processed
C27_Witness ==
  /\ ocean_profiles # <<>>
  /\ requests[1].pc = "answered"
  /\ requests[1].analysis # Unset
  /\ requests[1].analysis[1].type = "bgc_query"
  /\ requests[1].reply[1].body.response = <<BGCNoData>>
  /\ Len(requests) = 2
  /\ requests[2].route = "/api/process-netcdf"
  /\ requests[2].pc = "answered"

(***************************************************************************)
(* The region names of getOceanRegion                                      *)
(***************************************************************************)
InArabianSeaBox(lat, lon) ==
  lat >= Deg(0) /\ lat <= Deg(30) /\ lon >= Deg(40) /\ lon <= Deg(100)

\* C30: coordinates with latitude in [-10, 30] and longitude in [90, 120]
\* that lie outside the Arabian Sea box yield "Bay of Bengal" in both
\* copies, so that each of the four region names is returned for some pair.
C30_BayOfBengalReturned ==
  (/\ RegionsComputed
   /\ call.lat >= Deg(-10) /\ call.lat <= Deg(30)
   /\ call.lon >= Deg(90) /\ call.lon <= Deg(120)
   /\ ~InArabianSeaBox(call.lat, call.lon))
  => BothCopiesGive("Bay of Bengal")

\* no coordinate pair is named "Bay of Bengal" by either copy
C30_BayOfBengalNeverReturned ==
  /\ call.op = "getOceanRegion" /\ call.region # Unset
       => call.region # <<"Bay of Bengal">>
  /\ call.op = "getOceanRegion" /\ call.embeddingsRegion # Unset
       => call.embeddingsRegion # <<"Bay of Bengal">>

=============================================================================
